---- MODULE Spec2Model ----
(***************************************************************************)
(* Model of convert_proto2ts: Lexer.tokenize, Parser.parse, the           *)
(* transformFieldType helper and the compile orchestrator.                *)
(*                                                                         *)
(* A JavaScript string is a sequence of one-character strings, so that    *)
(* indexing, slicing, regular-expression tests and toLowerCase are        *)
(* computed and not assumed.                                               *)
(***************************************************************************)
EXTENDS Integers, Sequences, FiniteSets, TLC

VARIABLES
  source,      \* Lexer._source: the input text of compile / new Lexer
  position,    \* Lexer._position
  line,        \* Lexer._line
  column,      \* Lexer._column
  tokens,      \* Lexer._tokens
  errors,      \* Lexer._errors
  ptokens,     \* Parser._tokens
  ppos,        \* Parser._position
  perrors,     \* Parser._errors
  protoFile,   \* the root node under construction in Parser.parse
  stack,       \* the activations of _parseMessage/_parseEnum/... whose body loop is open
  ast,         \* ParserOutput.ast once parse has returned
  constructed, \* the stage objects compile has constructed so far
  field,       \* the FieldNode handed to transformFieldType
  fieldText,   \* the text transformFieldType returned
  result,      \* the CompilerOutput compile returned
  returned,    \* what the earlier calls of compile or parse on this input returned
  pc           \* where the call is

vars == <<source, position, line, column, tokens, errors, ptokens, ppos, perrors,
          protoFile, stack, ast, constructed, field, fieldText, result, returned, pc>>

lexerVars == <<position, line, column, tokens, errors>>
parserVars == <<ptokens, ppos, perrors, protoFile, stack, ast>>
genVars == <<field, fieldText>>

\* ---------------------------------------------------------------- strings

s_syntax == <<"s", "y", "n", "t", "a", "x">>
s_package == <<"p", "a", "c", "k", "a", "g", "e">>
s_import == <<"i", "m", "p", "o", "r", "t">>
s_message == <<"m", "e", "s", "s", "a", "g", "e">>
s_enum == <<"e", "n", "u", "m">>
s_service == <<"s", "e", "r", "v", "i", "c", "e">>
s_option == <<"o", "p", "t", "i", "o", "n">>
s_rpc == <<"r", "p", "c">>
s_returns == <<"r", "e", "t", "u", "r", "n", "s">>
s_optional == <<"o", "p", "t", "i", "o", "n", "a", "l">>
s_repeated == <<"r", "e", "p", "e", "a", "t", "e", "d">>
s_required == <<"r", "e", "q", "u", "i", "r", "e", "d">>
s_map == <<"m", "a", "p">>
s_oneof == <<"o", "n", "e", "o", "f">>
s_to == <<"t", "o">>
s_reserved == <<"r", "e", "s", "e", "r", "v", "e", "d">>
s_extensions == <<"e", "x", "t", "e", "n", "s", "i", "o", "n", "s">>
s_extend == <<"e", "x", "t", "e", "n", "d">>
s_public == <<"p", "u", "b", "l", "i", "c">>
s_true == <<"t", "r", "u", "e">>
s_false == <<"f", "a", "l", "s", "e">>
s_double == <<"d", "o", "u", "b", "l", "e">>
s_float == <<"f", "l", "o", "a", "t">>
s_int32 == <<"i", "n", "t", "3", "2">>
s_int64 == <<"i", "n", "t", "6", "4">>
s_uint32 == <<"u", "i", "n", "t", "3", "2">>
s_uint64 == <<"u", "i", "n", "t", "6", "4">>
s_sint32 == <<"s", "i", "n", "t", "3", "2">>
s_sint64 == <<"s", "i", "n", "t", "6", "4">>
s_fixed32 == <<"f", "i", "x", "e", "d", "3", "2">>
s_fixed64 == <<"f", "i", "x", "e", "d", "6", "4">>
s_sfixed32 == <<"s", "f", "i", "x", "e", "d", "3", "2">>
s_sfixed64 == <<"s", "f", "i", "x", "e", "d", "6", "4">>
s_bool == <<"b", "o", "o", "l">>
s_string == <<"s", "t", "r", "i", "n", "g">>
s_bytes == <<"b", "y", "t", "e", "s">>
s_number == <<"n", "u", "m", "b", "e", "r">>
s_boolean == <<"b", "o", "o", "l", "e", "a", "n">>
s_Uint8Array == <<"U", "i", "n", "t", "8", "A", "r", "r", "a", "y">>
s_Map == <<"M", "a", "p">>
s_interface == <<"i", "n", "t", "e", "r", "f", "a", "c", "e">>
s_proto3 == <<"p", "r", "o", "t", "o", "3">>
s_example == <<"e", "x", "a", "m", "p", "l", "e">>
s_Person == <<"P", "e", "r", "s", "o", "n">>
s_name == <<"n", "a", "m", "e">>
s_id == <<"i", "d">>
s_tags == <<"t", "a", "g", "s">>
s_Optional == <<"O", "p", "t", "i", "o", "n", "a", "l">>
s_Foo == <<"F", "o", "o">>
s_bar == <<"b", "a", "r">>
s_Get == <<"G", "e", "t">>
s_Req == <<"R", "e", "q">>
s_Res == <<"R", "e", "s">>

Letters ==
  {"a", "b", "c", "d", "e", "f", "g", "h", "i", "j", "k", "l", "m",
   "n", "o", "p", "q", "r", "s", "t", "u", "v", "w", "x", "y", "z",
   "A", "B", "C", "D", "E", "F", "G", "H", "I", "J", "K", "L", "M",
   "N", "O", "P", "Q", "R", "S", "T", "U", "V", "W", "X", "Y", "Z"}

Digits == {"0", "1", "2", "3", "4", "5", "6", "7", "8", "9"}

UpperToLower ==
  ("A" :> "a") @@ ("B" :> "b") @@ ("C" :> "c") @@ ("D" :> "d") @@ ("E" :> "e") @@
  ("F" :> "f") @@ ("G" :> "g") @@ ("H" :> "h") @@ ("I" :> "i") @@ ("J" :> "j") @@
  ("K" :> "k") @@ ("L" :> "l") @@ ("M" :> "m") @@ ("N" :> "n") @@ ("O" :> "o") @@
  ("P" :> "p") @@ ("Q" :> "q") @@ ("R" :> "r") @@ ("S" :> "s") @@ ("T" :> "t") @@
  ("U" :> "u") @@ ("V" :> "v") @@ ("W" :> "w") @@ ("X" :> "x") @@ ("Y" :> "y") @@
  ("Z" :> "z")

\* a toLowerCase that leaves the text as it is
ToLowerCaseKept(s) == s

\* String.prototype.toLowerCase
ToLowerCase(s) ==
  [i \in 1..Len(s) |-> IF s[i] \in DOMAIN UpperToLower THEN UpperToLower[s[i]] ELSE s[i]]

\* String.prototype.slice(a, b) with 0 <= a <= b <= length
Slice(s, a, b) == SubSeq(s, a + 1, b)

\* /\s/.test(char)
isWhitespace(s) == \E i \in 1..Len(s) : s[i] \in {" ", "\n", "\t", "\r"}

\* /\d/.test(char)
isDigit(s) == \E i \in 1..Len(s) : s[i] \in Digits

\* /[a-zA-Z_]/.test(char)
isIdentifierStart(s) == \E i \in 1..Len(s) : s[i] \in Letters \cup {"_"}

\* /[a-zA-Z0-9_]/.test(char): true of any string holding one such character
isIdentifierChar(s) == \E i \in 1..Len(s) : s[i] \in Letters \cup Digits \cup {"_"}

\* /^[a-zA-Z_][a-zA-Z0-9_]*$/.test(name)
isValidIdentifier(s) ==
  /\ Len(s) >= 1
  /\ s[1] \in Letters \cup {"_"}
  /\ \A i \in 2..Len(s) : s[i] \in Letters \cup Digits \cup {"_"}

\* ------------------------------------------------------------ token tables

\* the keyword table of lexer/define: keyword text -> TokenType member
KEYWORDS ==
  (s_syntax :> "SYNTAX") @@ (s_package :> "PACKAGE") @@ (s_import :> "IMPORT") @@
  (s_message :> "MESSAGE") @@ (s_enum :> "ENUM") @@ (s_service :> "SERVICE") @@
  (s_option :> "OPTION") @@ (s_rpc :> "RPC") @@ (s_returns :> "RETURNS") @@
  (s_optional :> "OPTIONAL") @@ (s_repeated :> "REPEATED") @@ (s_required :> "REQUIRED") @@
  (s_map :> "MAP") @@ (s_oneof :> "ONEOF") @@ (s_to :> "TO") @@
  (s_reserved :> "RESERVED") @@ (s_extensions :> "EXTENSIONS") @@ (s_extend :> "EXTEND") @@
  (s_public :> "PUBLIC") @@ (s_true :> "TRUE") @@ (s_false :> "FALSE") @@
  (s_double :> "DOUBLE") @@ (s_float :> "FLOAT") @@ (s_int32 :> "INT32") @@
  (s_int64 :> "INT64") @@ (s_uint32 :> "UINT32") @@ (s_uint64 :> "UINT64") @@
  (s_sint32 :> "SINT32") @@ (s_sint64 :> "SINT64") @@ (s_fixed32 :> "FIXED32") @@
  (s_fixed64 :> "FIXED64") @@ (s_sfixed32 :> "SFIXED32") @@ (s_sfixed64 :> "SFIXED64") @@
  (s_bool :> "BOOL") @@ (s_string :> "STRING") @@ (s_bytes :> "BYTES")

\* the symbol table of lexer/define: symbol character -> TokenType member
SYMBOLS ==
  (";" :> "SEMICOLON") @@ ("," :> "COMMA") @@ ("." :> "DOT") @@ ("=" :> "EQUAL") @@
  ("{" :> "LBRACE") @@ ("}" :> "RBRACE") @@ ("[" :> "LBRACKET") @@ ("]" :> "RBRACKET") @@
  ("(" :> "L_PARENTHESES") @@ (")" :> "R_PARENTHESES") @@ ("<" :> "L_ANGLE") @@
  (">" :> "R_ANGLE") @@ ("/" :> "SLASH") @@ ("*" :> "STAR") @@ (":" :> "COLON")

\* --------------------------------------------------------------- the Lexer

\* Lexer._current
LexCurrent(L) ==
  IF L.position >= Len(source) THEN <<>> ELSE <<source[L.position + 1]>>

\* Lexer._next
LexNext(L) ==
  IF L.position + 1 >= Len(source) THEN <<>> ELSE <<source[L.position + 2]>>

\* the scanning fields of the Lexer as one record
LexState == [position |-> position, line |-> line, column |-> column]

Step(L, n) == [L EXCEPT !.position = @ + n, !.column = @ + n]

\* Lexer._createToken
\* a token that starts at the cursor whatever start it is given
createTokenAtCursor(type, value, start, startLine, startColumn, L) ==
  [type |-> type, value |-> value, line |-> startLine, column |-> startColumn,
   start |-> L.position, end |-> L.position]

createToken(type, value, start, startLine, startColumn, L) ==
  [type |-> type, value |-> value, line |-> startLine, column |-> startColumn,
   start |-> start, end |-> L.position]

\* Lexer._addError: the record pushed on _errors
LexerError(message, detail, l, c) ==
  [message |-> message, detail |-> detail, line |-> l, column |-> c]

RECURSIVE skipWhitespace(_)
\* Lexer._skipWhitespace
skipWhitespace(L) ==
  IF L.position < Len(source) /\ isWhitespace(LexCurrent(L))
  THEN skipWhitespace(
         IF LexCurrent(L) = <<"\n">>
         THEN [position |-> L.position + 1, line |-> L.line + 1, column |-> 1]
         ELSE Step(L, 1))
  ELSE L

RECURSIVE LineCommentLoop(_)
LineCommentLoop(L) ==
  IF L.position < Len(source) /\ LexCurrent(L) # <<"\n">>
  THEN LineCommentLoop(Step(L, 1))
  ELSE L

\* Lexer._readLineComment: the scanning state after it
readLineComment(L) == LineCommentLoop(Step(L, 2))

RECURSIVE BlockCommentLoop(_)
BlockCommentLoop(L) ==
  IF L.position < Len(source)
  THEN LET M == IF LexCurrent(L) = <<"\n">>
                THEN [L EXCEPT !.line = @ + 1, !.column = 1]
                ELSE [L EXCEPT !.column = @ + 1]
       IN IF LexCurrent(L) = <<"*">> /\ LexNext(L) = <<"/">>
          THEN Step(M, 2)
          ELSE BlockCommentLoop([M EXCEPT !.position = @ + 1])
  ELSE L

\* Lexer._readBlockComment: the scanning state after it
readBlockComment(L) == BlockCommentLoop(Step(L, 2))

\* an escape that keeps the character after the backslash as it is
UnescapeKept(c) == c

\* the decoded character of the escape pair \c in _readStringLiteral
Unescape(c) ==
  CASE c = "n" -> "\n"
    [] c = "t" -> "\t"
    [] c = "r" -> "\r"
    [] OTHER -> c

RECURSIVE StringLoop(_, _)
\* the while loop of Lexer._readStringLiteral: scanning state and decoded value
StringLoop(L, value) ==
  IF L.position < Len(source) /\ LexCurrent(L) # <<"\"">>
  THEN IF LexCurrent(L) = <<"\\">> /\ L.position + 1 < Len(source)
       THEN StringLoop(Step(L, 2), Append(value, Unescape(source[L.position + 2])))
       ELSE StringLoop(Step(L, 1), Append(value, source[L.position + 1]))
  ELSE [L |-> L, value |-> value]

\* Lexer._readStringLiteral up to the test for the closing quote
readStringLiteral(L) == StringLoop(Step(L, 1), <<>>)

RECURSIVE DigitLoop(_)
DigitLoop(L) ==
  IF L.position < Len(source) /\ isDigit(LexCurrent(L))
  THEN DigitLoop(Step(L, 1))
  ELSE L

\* Lexer._readNumber: the scanning state after it
readNumber(L) ==
  LET a == IF LexCurrent(L) = <<"-">> THEN Step(L, 1) ELSE L
      b == DigitLoop(a)
  IN IF LexCurrent(b) = <<".">> THEN DigitLoop(Step(b, 1)) ELSE b

RECURSIVE readIdentifier(_)
\* Lexer._readIdentifier: the scanning state after it
readIdentifier(L) ==
  IF L.position < Len(source) /\ isIdentifierChar(LexCurrent(L))
  THEN readIdentifier(Step(L, 1))
  ELSE L

\* the token type _readIdentifier gives a word
KeywordType(value) ==
  IF ToLowerCase(value) \in DOMAIN KEYWORDS THEN KEYWORDS[ToLowerCase(value)] ELSE "IDENTIFIER"

\* the branch one iteration of the loop of Lexer.tokenize takes
Dispatch(L) ==
  LET char == LexCurrent(L) IN
  CASE isWhitespace(char) -> "whitespace"
    [] char = <<"/">> /\ LexNext(L) = <<"/">> -> "lineComment"
    [] char = <<"/">> /\ LexNext(L) = <<"*">> -> "blockComment"
    [] char = <<"\"">> -> "string"
    [] isDigit(char) \/ (char = <<"-">> /\ isDigit(LexNext(L))) -> "number"
    [] isIdentifierStart(char) -> "identifier"
    [] char[1] \in DOMAIN SYMBOLS -> "symbol"
    [] OTHER -> "unknown"

InLoop(branch) ==
  /\ pc = "tokenize"
  /\ position < Len(source)
  /\ Dispatch(LexState) = branch

SetLex(L) ==
  /\ position' = L.position
  /\ line' = L.line
  /\ column' = L.column

Others == <<source, ptokens, ppos, perrors, protoFile, stack, ast, constructed,
            field, fieldText, result, returned, pc>>

\* tokenize: the whitespace branch
SkipWhitespace ==
  /\ InLoop("whitespace")
  /\ SetLex(skipWhitespace(LexState))
  /\ UNCHANGED <<tokens, errors, Others>>

\* tokenize: the // branch
ReadLineComment ==
  /\ InLoop("lineComment")
  /\ LET L == readLineComment(LexState) IN
       /\ SetLex(L)
       /\ tokens' = Append(tokens, createToken("COMMENT", Slice(source, position, L.position),
                                               position, line, column, L))
  /\ UNCHANGED <<errors, Others>>

\* tokenize: the /* branch
ReadBlockComment ==
  /\ InLoop("blockComment")
  /\ LET L == readBlockComment(LexState) IN
       /\ SetLex(L)
       /\ IF L.position >= Len(source)
          THEN /\ errors' = Append(errors, LexerError("Unterminated block comment", <<>>, line, column))
               /\ UNCHANGED tokens
          ELSE /\ tokens' = Append(tokens, createToken("COMMENT", Slice(source, position, L.position),
                                                       position, line, column, L))
               /\ UNCHANGED errors
  /\ UNCHANGED Others

\* tokenize: the string literal branch
ReadStringLiteral ==
  /\ InLoop("string")
  /\ LET r == readStringLiteral(LexState) IN
       IF r.L.position >= Len(source)
       THEN /\ SetLex(r.L)
            /\ errors' = Append(errors, LexerError("Unterminated string literal", <<>>, line, column))
            /\ UNCHANGED tokens
       ELSE /\ SetLex(Step(r.L, 1))
            /\ tokens' = Append(tokens, createToken("STRING_LITERAL", r.value,
                                                    position, line, column, Step(r.L, 1)))
            /\ UNCHANGED errors
  /\ UNCHANGED Others

\* tokenize: the number literal branch
ReadNumber ==
  /\ InLoop("number")
  /\ LET L == readNumber(LexState) IN
       /\ SetLex(L)
       /\ tokens' = Append(tokens, createToken("NUMBER_LITERAL", Slice(source, position, L.position),
                                               position, line, column, L))
  /\ UNCHANGED <<errors, Others>>

\* tokenize: the identifier or keyword branch
ReadIdentifier ==
  /\ InLoop("identifier")
  /\ LET L == readIdentifier(LexState)
         value == Slice(source, position, L.position) IN
       /\ SetLex(L)
       /\ tokens' = Append(tokens, createToken(KeywordType(value), value, position, line, column, L))
  /\ UNCHANGED <<errors, Others>>

\* tokenize: the symbol branch
ReadSymbol ==
  /\ InLoop("symbol")
  /\ LET L == Step(LexState, 1)
         char == source[position + 1] IN
       /\ SetLex(L)
       /\ tokens' = Append(tokens, createToken(SYMBOLS[char], <<char>>, position, line, column, L))
  /\ UNCHANGED <<errors, Others>>

\* an unknown character branch that records the error and stays on the character
UnknownCharacterKept ==
  /\ InLoop("unknown")
  /\ errors' = Append(errors, LexerError("Unknown character: ", LexCurrent(LexState), line, column))
  /\ UNCHANGED <<position, line, column, tokens, Others>>

\* tokenize: the unknown character branch
UnknownCharacter ==
  /\ InLoop("unknown")
  /\ errors' = Append(errors, LexerError("Unknown character: ", LexCurrent(LexState), line, column))
  /\ SetLex(Step(LexState, 1))
  /\ UNCHANGED <<tokens, Others>>

\* tokenize: the loop ends and { tokens, errors } is returned
TokenizeReturn ==
  /\ pc = "tokenize"
  /\ position >= Len(source)
  /\ pc' = "tokenized"
  /\ UNCHANGED <<source, lexerVars, parserVars, constructed, genVars, returned, result>>

\* -------------------------------------------------- the Parser: primitives

Null == [type |-> "NULL"]

EOF_TOKEN == [type |-> "EOF", value |-> <<>>, line |-> 0, column |-> 0, start |-> 0, end |-> 0]

\* the cursor and the error list of the Parser as one record
ParserState == [pos |-> ppos, errs |-> perrors]

\* Parser._previous
previous(st) == IF st.pos <= 0 THEN EOF_TOKEN ELSE ptokens[st.pos]

\* Parser._current
current(st) == IF st.pos >= Len(ptokens) THEN EOF_TOKEN ELSE ptokens[st.pos + 1]

RECURSIVE NextEffectLoop(_, _)
NextEffectLoop(i, t) ==
  IF i >= Len(ptokens) THEN EOF_TOKEN
  ELSE IF ptokens[i + 1].type # "COMMENT"
       THEN IF t - 1 <= 0 THEN ptokens[i + 1] ELSE NextEffectLoop(i + 1, t - 1)
       ELSE NextEffectLoop(i + 1, t)

\* a lookahead that returns the current token
nextEffectCurrent(st, count) == current(st)

\* Parser._nextEffect
nextEffect(st, count) == NextEffectLoop(st.pos + 1, count)

\* Parser._advance: the state after it (the token it returns is previous of that state)
advance(st) == IF st.pos < Len(ptokens) THEN [st EXCEPT !.pos = @ + 1] ELSE st

\* Parser._check
check(st, type) == st.pos < Len(ptokens) /\ current(st).type = type

\* the position record of a token
TokenPosition(token) ==
  [line |-> token.line, column |-> token.column, start |-> token.start, end |-> token.end]

\* Parser._addError
addError(st, message, detail, expected) ==
  [st EXCEPT !.errs = Append(@, [message |-> message, detail |-> detail,
                                 position |-> TokenPosition(current(st)),
                                 expected |-> expected])]

\* Parser._expect
expect(st, type, message) ==
  IF check(st, type)
  THEN [st |-> advance(st), tok |-> previous(advance(st))]
  ELSE [st |-> addError(st, message, <<>>, <<type>>), tok |-> current(st)]

\* Parser._expectIdentifier
expectIdentifier(st, message) ==
  IF isValidIdentifier(current(st).value)
  THEN [st |-> [st EXCEPT !.pos = @ + 1], tok |-> ptokens[st.pos + 1]]
  ELSE [st |-> addError(st, message, <<>>, <<"IDENTIFIER">>), tok |-> current(st)]

\* Parser._match
match(st, types) ==
  IF \E type \in types : check(st, type)
  THEN [st |-> advance(st), ok |-> TRUE]
  ELSE [st |-> st, ok |-> FALSE]

\* Parser._createPosition
createPosition(start, end, startToken) ==
  [line |-> startToken.line, column |-> startToken.column, start |-> start, end |-> end]

\* -------------------------------------------------- the Parser: productions

RECURSIVE Invoke(_, _, _)

\* Parser._parseStringLiteral
parseStringLiteral(st, message) ==
  LET e == expect(st, "STRING_LITERAL", message) IN
  [st |-> e.st,
   node |-> [type |-> "STRING_LITERAL",
             position |-> createPosition(e.tok.start, e.tok.end, e.tok),
             value |-> e.tok.value]]

\* a number literal read from whatever token is there, without a check
parseNumberLiteralUnchecked(st, message) ==
  [st |-> advance(st),
   node |-> [type |-> "NUMBER_LITERAL",
             position |-> createPosition(current(st).start, current(st).end, current(st)),
             value |-> current(st).value]]

\* Parser._parseNumberLiteral
parseNumberLiteral(st, message) ==
  LET e == expect(st, "NUMBER_LITERAL", message) IN
  [st |-> e.st,
   node |-> [type |-> "NUMBER_LITERAL",
             position |-> createPosition(e.tok.start, e.tok.end, e.tok),
             value |-> e.tok.value]]

\* Parser._parseBooleanLiteral
parseBooleanLiteral(st, message) ==
  LET startToken == current(st)
      m == match(st, {"TRUE", "FALSE"})
      st1 == IF m.ok THEN m.st ELSE addError(m.st, message, <<>>, <<"TRUE", "FALSE">>) IN
  [st |-> st1,
   node |-> [type |-> "BOOLEAN_LITERAL",
             position |-> createPosition(startToken.start, startToken.end, startToken),
             value |-> (startToken.value = s_true)]]

\* Parser._parseSyntax
parseSyntax(st) ==
  LET startToken == current(st)
      e1 == expect(st, "SYNTAX", "Expect \"syntax\" keyword")
      e2 == expect(e1.st, "EQUAL", "Expect \"=\" after syntax keyword")
      version == Invoke("parseStringLiteral", e2.st, "Expect syntax version string after \"=\"")
      e3 == expect(version.st, "SEMICOLON", "Expect \";\" after syntax version") IN
  [st |-> e3.st,
   node |-> [type |-> "SYNTAX", version |-> version.node,
             position |-> createPosition(startToken.start, startToken.end, startToken)]]

\* Parser._parseIdentifier
parseIdentifier(st, message) ==
  LET e == expectIdentifier(st, message)
      st1 == IF ~isValidIdentifier(e.tok.value) THEN addError(e.st, message, <<>>, <<>>) ELSE e.st IN
  [st |-> st1,
   node |-> [type |-> "IDENTIFIER", value |-> e.tok.value,
             position |-> createPosition(e.tok.start, e.tok.end, e.tok)]]

RECURSIVE DottedLoop(_, _)
\* while (this._match(DOT)) name += '.' + _expectIdentifier(...).value
DottedLoop(st, name) ==
  LET m == match(st, {"DOT"}) IN
  IF m.ok
  THEN LET e == expectIdentifier(m.st, "Expect identifier after \".\"") IN
       DottedLoop(e.st, name \o <<".">> \o e.tok.value)
  ELSE [st |-> st, name |-> name]

\* Parser._parseQualifiedIdentifier
parseQualifiedIdentifier(st, message) ==
  LET e == expectIdentifier(st, message)
      l == DottedLoop(e.st, e.tok.value) IN
  [st |-> l.st,
   node |-> [type |-> "IDENTIFIER", value |-> l.name,
             position |-> createPosition(e.tok.start, previous(l.st).end, e.tok)]]

\* Parser._parsePackage
parsePackage(st) ==
  LET startToken == current(st)
      e1 == expect(st, "PACKAGE", "Expect \"package\" keyword")
      name == Invoke("parseQualifiedIdentifier", e1.st, "Expect package name after \"package\" keyword")
      e2 == expect(name.st, "SEMICOLON", "Expect \";\" after package name") IN
  [st |-> e2.st,
   node |-> [type |-> "PACKAGE", name |-> name.node,
             position |-> createPosition(startToken.start, startToken.end, startToken)]]

\* Parser._parseImport
parseImport(st) ==
  LET startToken == current(st)
      e1 == expect(st, "IMPORT", "Expect \"import\" keyword")
      m == match(e1.st, {"PUBLIC"})
      path == Invoke("parseStringLiteral", m.st, "Expect import path after \"import\" keyword")
      e2 == expect(path.st, "SEMICOLON", "Expect \";\" after import path") IN
  [st |-> e2.st,
   node |-> [type |-> "IMPORT", publicKeyword |-> IF m.ok THEN s_public ELSE <<>>,
             path |-> path.node,
             position |-> createPosition(startToken.start, startToken.end, startToken)]]

\* Parser._parseOptionName
parseOptionName(st) ==
  LET startToken == current(st)
      m == match(st, {"L_PARENTHESES"})
      head ==
        IF m.ok
        THEN LET inner == expectIdentifier(m.st, "Expect option name after \"(\"")
                 l == DottedLoop(inner.st, <<"(">> \o inner.tok.value)
                 e == expect(l.st, "R_PARENTHESES", "Expect \")\" after option name") IN
             [st |-> e.st, name |-> l.name \o <<")">>]
        ELSE LET e == expectIdentifier(m.st, "Expect option name after \"option\" keyword") IN
             [st |-> e.st, name |-> e.tok.value]
      l2 == DottedLoop(head.st, head.name) IN
  [st |-> l2.st,
   node |-> [type |-> "IDENTIFIER", value |-> l2.name,
             position |-> createPosition(startToken.start, previous(l2.st).end, startToken)]]

\* the value of an option: the if/else chain shared by _parseOption and _parseFieldOptions
parseOptionValue(st, startToken) ==
  IF check(st, "STRING_LITERAL") THEN Invoke("parseStringLiteral", st, "Expect option value after \"=\"")
  ELSE IF check(st, "NUMBER_LITERAL") THEN Invoke("parseNumberLiteral", st, "Expect option value after \"=\"")
  ELSE IF check(st, "TRUE") \/ check(st, "FALSE")
       THEN Invoke("parseBooleanLiteral", st, "Expect option value after \"=\"")
  ELSE [st |-> addError(st, "Expect option (string, number, or boolean) value after \"=\"", <<>>, <<>>),
        node |-> [type |-> "STRING_LITERAL", value |-> <<>>,
                  position |-> createPosition(startToken.start, startToken.end, startToken)]]

\* Parser._parseOption
parseOption(st) ==
  LET startToken == current(st)
      e1 == expect(st, "OPTION", "Expect \"option\" keyword")
      name == Invoke("parseOptionName", e1.st, <<>>)
      e2 == expect(name.st, "EQUAL", "Expect \"=\" after option name")
      value == Invoke("parseOptionValue", e2.st, startToken)
      e3 == expect(value.st, "SEMICOLON", "Expect \";\" after option value") IN
  [st |-> e3.st,
   node |-> [type |-> "OPTION", name |-> name.node, value |-> value.node,
             position |-> createPosition(startToken.start, startToken.end, startToken)]]

RECURSIVE FieldOptionsLoop(_, _)
\* the do ... while (this._match(COMMA)) loop of _parseFieldOptions
FieldOptionsLoop(st, options) ==
  LET startToken == current(st)
      name == Invoke("parseIdentifier", st, "Expect option name")
      e == expect(name.st, "EQUAL", "Expect \"=\" after option name")
      value == Invoke("parseOptionValue", e.st, startToken)
      node == [type |-> "FIELD_OPTION", name |-> name.node, value |-> value.node,
               position |-> createPosition(startToken.start, previous(value.st).end, startToken)]
      m == match(value.st, {"COMMA"}) IN
  IF m.ok THEN FieldOptionsLoop(m.st, Append(options, node))
  ELSE [st |-> m.st, options |-> Append(options, node)]

\* Parser._parseFieldOptions
parseFieldOptions(st) ==
  IF ~check(st, "LBRACKET") THEN [st |-> st, options |-> <<>>]
  ELSE LET l == FieldOptionsLoop(advance(st), <<>>)
           e == expect(l.st, "RBRACKET", "Expect \"]\" after field options") IN
       [st |-> e.st, options |-> l.options]

\* Parser._parseEnumField
parseEnumField(st) ==
  LET startToken == current(st)
      name == Invoke("parseIdentifier", st, "Expect enum field name")
      e1 == expect(name.st, "EQUAL", "Expect \"=\" after enum field name")
      value == Invoke("parseNumberLiteral", e1.st, "Expect enum field value after \"=\"")
      options == Invoke("parseFieldOptions", value.st, <<>>)
      e2 == expect(options.st, "SEMICOLON", "Expect \";\" after enum field value") IN
  [st |-> e2.st,
   node |-> [type |-> "ENUM_FIELD", name |-> name.node, value |-> value.node,
             options |-> options.options,
             position |-> createPosition(startToken.start, startToken.end, startToken)]]

\* an "n to m" form that reads its first number only
parseToFirstNumberOnly(st) == Invoke("parseNumberLiteral", st, "Expect number value")

\* the "n to m" form shared by _parseReserved and _parseExtensions
parseTo(st) ==
  LET toStartToken == current(st)
      toStart == Invoke("parseNumberLiteral", st, "Expect number value")
      e == expect(toStart.st, "TO", "Expect \"to\" keyword after number literal")
      toEnd == Invoke("parseNumberLiteral", e.st, "Expect number value after \"to\" keyword") IN
  [st |-> toEnd.st,
   node |-> [type |-> "TO", start |-> toStart.node, end |-> toEnd.node,
             position |-> createPosition(toStartToken.start, previous(toEnd.st).end, toStartToken)]]

RECURSIVE ReservedLoop(_, _)
\* the do ... while (this._match(COMMA)) loop of _parseReserved
ReservedLoop(st, ranges) ==
  LET r == IF check(st, "NUMBER_LITERAL")
           THEN IF nextEffect(st, 1).type = "TO"
                THEN LET t == Invoke("parseTo", st, <<>>) IN [st |-> t.st, ranges |-> Append(ranges, t.node)]
                ELSE LET v == Invoke("parseNumberLiteral", st, "Expect (string, number) value after \"reserved\" keyword")
                     IN [st |-> v.st, ranges |-> Append(ranges, v.node)]
           ELSE IF check(st, "STRING_LITERAL")
                THEN LET v == Invoke("parseStringLiteral", st, "Expect (string, number) value after \"reserved\" keyword")
                     IN [st |-> v.st, ranges |-> Append(ranges, v.node)]
                ELSE [st |-> addError(st, "Unknown token in reserved ranges: ", current(st).value, <<>>),
                      ranges |-> ranges]
      m == match(r.st, {"COMMA"}) IN
  IF m.ok THEN ReservedLoop(m.st, r.ranges) ELSE [st |-> m.st, ranges |-> r.ranges]

\* Parser._parseReserved
parseReserved(st) ==
  LET startToken == current(st)
      e1 == expect(st, "RESERVED", "Expect \"reserved\" keyword")
      l == ReservedLoop(e1.st, <<>>)
      e2 == expect(l.st, "SEMICOLON", "Expect \";\" after reserved ranges") IN
  [st |-> e2.st,
   node |-> [type |-> "RESERVED", ranges |-> l.ranges,
             position |-> createPosition(startToken.start, previous(e2.st).end, startToken)]]

\* a label test that knows the optional keyword only
isLabelTokenOptionalOnly(token) == token.type = "OPTIONAL"

\* helper.isLabelToken
isLabelToken(token) == token.type \in {"OPTIONAL", "REQUIRED", "REPEATED"}

\* Parser._parseLabel
parseLabel(st) ==
  LET startToken == current(st)
      st1 == IF ~isLabelToken(current(st))
             THEN addError(st, "Expect (optional, required, repeated) label token", <<>>, <<>>)
             ELSE st IN
  [st |-> [st1 EXCEPT !.pos = @ + 1],
   node |-> [type |-> "FIELD_LABEL", value |-> startToken.value,
             position |-> createPosition(startToken.start, startToken.end, startToken)]]

RECURSIVE TypeArgumentsLoop(_, _)
\* the do ... while (this._match(COMMA)) loop of _parseFieldType
TypeArgumentsLoop(st, args) ==
  LET a == Invoke("parseQualifiedIdentifier", st, "Expect field type argument")
      m == match(a.st, {"COMMA"}) IN
  IF m.ok THEN TypeArgumentsLoop(m.st, Append(args, a.node))
  ELSE [st |-> m.st, args |-> Append(args, a.node)]

\* Parser._parseFieldType
parseFieldType(st) ==
  LET startToken == current(st)
      name == Invoke("parseQualifiedIdentifier", st, "Expect field type name")
      m == match(name.st, {"L_PARENTHESES"})
      r == IF m.ok
           THEN LET l == TypeArgumentsLoop(m.st, <<>>)
                    e == expect(l.st, "R_PARENTHESES", "Expect \")\" after field type arguments") IN
                [st |-> e.st, args |-> l.args]
           ELSE [st |-> m.st, args |-> <<>>] IN
  [st |-> r.st,
   node |-> [type |-> "FIELD_TYPE", name |-> name.node.value, arguments |-> r.args,
             position |-> createPosition(startToken.start, previous(r.st).end, startToken)]]

\* Parser._parseField
parseField(st) ==
  LET startToken == current(st)
      label == IF isLabelToken(current(st)) THEN Invoke("parseLabel", st, <<>>) ELSE [st |-> st, node |-> Null]
      fieldType == Invoke("parseFieldType", label.st, <<>>)
      name == Invoke("parseIdentifier", fieldType.st, "Expect field name")
      e1 == expect(name.st, "EQUAL", "Expect \"=\" after field name")
      fieldNumber == Invoke("parseNumberLiteral", e1.st, "Expect field number")
      options == Invoke("parseFieldOptions", fieldNumber.st, <<>>)
      e2 == expect(options.st, "SEMICOLON", "Expect \";\" after field value") IN
  [st |-> e2.st,
   node |-> [type |-> "FIELD", name |-> name.node, fieldType |-> fieldType.node,
             fieldNumber |-> fieldNumber.node, label |-> label.node,
             options |-> options.options,
             position |-> createPosition(startToken.start, previous(e2.st).end, startToken)]]

RECURSIVE ExtensionsLoop(_, _)
\* the do ... while (this._match(COMMA)) loop of _parseExtensions
ExtensionsLoop(st, ranges) ==
  LET r == IF nextEffect(st, 1).type = "TO"
           THEN Invoke("parseTo", st, <<>>)
           ELSE Invoke("parseNumberLiteral", st, "Expect extensions range")
      m == match(r.st, {"COMMA"}) IN
  IF m.ok THEN ExtensionsLoop(m.st, Append(ranges, r.node))
  ELSE [st |-> m.st, ranges |-> Append(ranges, r.node)]

\* Parser._parseExtensions
parseExtensions(st) ==
  LET startToken == current(st)
      e1 == expect(st, "EXTENSIONS", "Expect \"extensions\" keyword")
      l == ExtensionsLoop(e1.st, <<>>)
      e2 == expect(l.st, "SEMICOLON", "Expect \";\" after extensions range") IN
  [st |-> e2.st,
   node |-> [type |-> "EXTENSIONS", ranges |-> l.ranges,
             position |-> createPosition(startToken.start, previous(e2.st).end, startToken)]]

\* Parser._parseRpcMethod
parseRpcMethod(st) ==
  LET startToken == current(st)
      e1 == expect(st, "RPC", "Expect \"rpc\" keyword")
      name == Invoke("parseIdentifier", e1.st, "Expect rpc method name after \"rpc\" keyword")
      e2 == expect(name.st, "L_PARENTHESES", "Expect \"(\" after rpc method name")
      inputType == Invoke("parseIdentifier", e2.st, "Expect request type after \"(\"")
      e3 == expect(inputType.st, "R_PARENTHESES", "Expect \")\" after request type")
      e4 == expect(e3.st, "RETURNS", "Expect \"returns\" keyword")
      e5 == expect(e4.st, "L_PARENTHESES", "Expect \"(\" after \"returns\" keyword")
      outputType == Invoke("parseIdentifier", e5.st, "Expect response type after \"returns\" keyword")
      e6 == expect(outputType.st, "R_PARENTHESES", "Expect \")\" after response type")
      e7 == expect(e6.st, "SEMICOLON", "Expect \";\" after rpc method") IN
  [st |-> e7.st,
   node |-> [type |-> "RPC_METHOD", name |-> name.node, inputType |-> inputType.node,
             outputType |-> outputType.node,
             position |-> createPosition(startToken.start, previous(e7.st).end, startToken)]]

\* ------------------------------------------------ the Parser: body loops

\* the activation record of _parseMessage, _parseEnum, _parseOneof, _parseExtend or
\* _parseService once its header is read: its startToken, name and local lists
NewFrame(kind, startToken, name) ==
  [kind |-> kind, startToken |-> startToken, name |-> name,
   fields |-> <<>>, oneofs |-> <<>>, enums |-> <<>>, extensions |-> Null,
   extends |-> <<>>, reserved |-> <<>>, messages |-> <<>>, options |-> <<>>,
   methods |-> <<>>]

\* the statements of a body function before its while loop
OpenBody(st, kind, keywordMessage, nameMessage, braceMessage) ==
  LET startToken == current(st)
      e1 == expect(st, kind, keywordMessage)
      name == Invoke("parseIdentifier", e1.st, nameMessage)
      e2 == expect(name.st, "LBRACE", braceMessage) IN
  [st |-> e2.st, opened |-> NewFrame(kind, startToken, name.node)]

\* Parser._parseEnum up to its loop
openEnum(st) ==
  OpenBody(st, "ENUM", "Expect \"enum\" keyword", "Expect enum name after \"enum\" keyword",
           "Expect \"{\" after enum name")

\* Parser._parseExtend up to its loop
openExtend(st) ==
  OpenBody(st, "EXTEND", "Expect \"extend\" keyword", "Expect extend name after \"extend\" keyword",
           "Expect \"{\" after extend name")

\* Parser._parseOneof up to its loop
openOneof(st) ==
  OpenBody(st, "ONEOF", "Expect \"oneof\" keyword", "Expect oneof name after \"oneof\" keyword",
           "Expect \"{\" after oneof name")

\* Parser._parseMessage up to its loop
openMessage(st) ==
  OpenBody(st, "MESSAGE", "Expect \"message\" keyword", "Expect message name after \"message\" keyword",
           "Expect \"{\" after message name")

\* Parser._parseService up to its loop
openService(st) ==
  OpenBody(st, "SERVICE", "Expect \"service\" keyword", "Expect service name after \"service\" keyword",
           "Expect \"{\" after service name")

\* Parser._isStatementStart
isStatementStart(st, type) ==
  /\ check(st, type)
  /\ isIdentifierChar(nextEffect(st, 1).value)
  /\ nextEffect(st, 2).type = "LBRACE"

\* the condition of every body loop
BodyLoopCondition(st) == ~check(st, "RBRACE") /\ st.pos < Len(ptokens)

\* the else branch of every body loop: report the token and step over it
skipUnknown(st, message) ==
  [addError(st, message, current(st).value, <<>>) EXCEPT !.pos = @ + 1]

\* one pass through the loop of _parseEnum
enumBody(st, frame) ==
  IF isValidIdentifier(current(st).value) /\ nextEffect(st, 1).type = "EQUAL"
  THEN LET r == Invoke("parseEnumField", st, <<>>) IN
       [st |-> r.st, frame |-> [frame EXCEPT !.fields = Append(@, r.node)], opened |-> Null]
  ELSE IF check(st, "OPTION")
  THEN LET r == Invoke("parseOption", st, <<>>) IN
       [st |-> r.st, frame |-> [frame EXCEPT !.options = Append(@, r.node)], opened |-> Null]
  ELSE IF check(st, "RESERVED")
  THEN LET r == Invoke("parseReserved", st, <<>>) IN
       [st |-> r.st, frame |-> [frame EXCEPT !.reserved = Append(@, r.node)], opened |-> Null]
  ELSE [st |-> skipUnknown(st, "Unknown token in enum: "), frame |-> frame, opened |-> Null]

\* one pass through the loop of _parseExtend
extendBody(st, frame) ==
  IF isIdentifierChar(current(st).value)
  THEN LET r == Invoke("parseField", st, <<>>) IN
       [st |-> r.st, frame |-> [frame EXCEPT !.fields = Append(@, r.node)], opened |-> Null]
  ELSE [st |-> skipUnknown(st, "Unknown token in extend: "), frame |-> frame, opened |-> Null]

\* one pass through the loop of _parseOneof
oneofBody(st, frame) ==
  IF isIdentifierChar(current(st).value)
  THEN LET r == Invoke("parseField", st, <<>>) IN
       [st |-> r.st, frame |-> [frame EXCEPT !.fields = Append(@, r.node)], opened |-> Null]
  ELSE [st |-> skipUnknown(st, "Unknown token in oneof: "), frame |-> frame, opened |-> Null]

\* one pass through the loop of _parseService
serviceBody(st, frame) ==
  IF isIdentifierChar(current(st).value)
  THEN LET r == Invoke("parseRpcMethod", st, <<>>) IN
       [st |-> r.st, frame |-> [frame EXCEPT !.methods = Append(@, r.node)], opened |-> Null]
  ELSE [st |-> skipUnknown(st, "Unknown token in service: "), frame |-> frame, opened |-> Null]

\* one pass through the loop of _parseMessage; a nested oneof, enum, extend or message
\* is entered (opened) and its node is appended when its own loop has ended
messageBody(st, frame) ==
  IF isStatementStart(st, "ONEOF")
  THEN LET r == Invoke("openOneof", st, <<>>) IN [st |-> r.st, frame |-> frame, opened |-> r.opened]
  ELSE IF isStatementStart(st, "ENUM")
  THEN LET r == Invoke("openEnum", st, <<>>) IN [st |-> r.st, frame |-> frame, opened |-> r.opened]
  ELSE IF check(st, "EXTENSIONS") /\ nextEffect(st, 1).type = "NUMBER_LITERAL"
  THEN LET r == Invoke("parseExtensions", st, <<>>) IN
       [st |-> r.st, frame |-> [frame EXCEPT !.extensions = r.node], opened |-> Null]
  ELSE IF isStatementStart(st, "EXTEND")
  THEN LET r == Invoke("openExtend", st, <<>>) IN [st |-> r.st, frame |-> frame, opened |-> r.opened]
  ELSE IF /\ check(st, "RESERVED")
          /\ nextEffect(st, 1).type \in {"STRING_LITERAL", "NUMBER_LITERAL"}
  THEN LET r == Invoke("parseReserved", st, <<>>) IN
       [st |-> r.st, frame |-> [frame EXCEPT !.reserved = Append(@, r.node)], opened |-> Null]
  ELSE IF isStatementStart(st, "MESSAGE")
  THEN LET r == Invoke("openMessage", st, <<>>) IN [st |-> r.st, frame |-> frame, opened |-> r.opened]
  ELSE IF isIdentifierChar(current(st).value)
  THEN LET r == Invoke("parseField", st, <<>>) IN
       [st |-> r.st, frame |-> [frame EXCEPT !.fields = Append(@, r.node)], opened |-> Null]
  ELSE [st |-> skipUnknown(st, "Unknown token in message: "), frame |-> frame, opened |-> Null]

\* the message of the _expect(RBRACE) that follows each body loop
CloseMessage(kind) ==
  CASE kind = "ENUM" -> "Expect \"}\" after enum fields"
    [] kind = "EXTEND" -> "Expect \"}\" after extend fields"
    [] kind = "ONEOF" -> "Expect \"}\" after oneof fields"
    [] kind = "MESSAGE" -> "Expect \"}\" after message fields"
    [] kind = "SERVICE" -> "Expect \"}\" after service methods"

\* the node a body function returns; end is the end offset its position is given
BodyNode(frame, end) ==
  LET pos == createPosition(frame.startToken.start, end, frame.startToken) IN
  CASE frame.kind = "ENUM" ->
         [type |-> "ENUM", name |-> frame.name, fields |-> frame.fields,
          reserved |-> frame.reserved, options |-> frame.options, position |-> pos]
    [] frame.kind = "EXTEND" ->
         [type |-> "EXTEND", name |-> frame.name, fields |-> frame.fields, position |-> pos]
    [] frame.kind = "ONEOF" ->
         [type |-> "ONEOF", name |-> frame.name, fields |-> frame.fields, position |-> pos]
    [] frame.kind = "MESSAGE" ->
         [type |-> "MESSAGE", name |-> frame.name, fields |-> frame.fields,
          oneofs |-> frame.oneofs, enums |-> frame.enums, extensions |-> frame.extensions,
          extends |-> frame.extends, reserved |-> frame.reserved,
          messages |-> frame.messages, position |-> pos]
    [] frame.kind = "SERVICE" ->
         [type |-> "SERVICE", name |-> frame.name, methods |-> frame.methods, position |-> pos]

\* the statements of a body function after its while loop
closeBody(st, frame) ==
  LET e == expect(st, "RBRACE", CloseMessage(frame.kind)) IN
  [st |-> e.st,
   node |-> BodyNode(frame, IF frame.kind = "ENUM" THEN frame.startToken.end
                            ELSE previous(e.st).end)]

\* the list of the caller that receives the node a body function returned
Receive(owner, node) ==
  CASE node.type = "ENUM" -> [owner EXCEPT !.enums = Append(@, node)]
    [] node.type = "EXTEND" -> [owner EXCEPT !.extends = Append(@, node)]
    [] node.type = "ONEOF" -> [owner EXCEPT !.oneofs = Append(@, node)]
    [] node.type = "MESSAGE" -> [owner EXCEPT !.messages = Append(@, node)]
    [] node.type = "SERVICE" -> [owner EXCEPT !.services = Append(@, node)]

\* one pass through the top-level loop of Parser.parse
topLevel(st, root) ==
  IF check(st, "PACKAGE")
  THEN LET r == Invoke("parsePackage", st, <<>>) IN
       [st |-> r.st, root |-> [root EXCEPT !.package = r.node], opened |-> Null]
  ELSE IF check(st, "IMPORT")
  THEN LET r == Invoke("parseImport", st, <<>>) IN
       [st |-> r.st, root |-> [root EXCEPT !.imports = Append(@, r.node)], opened |-> Null]
  ELSE IF check(st, "OPTION")
  THEN LET r == Invoke("parseOption", st, <<>>) IN
       [st |-> r.st, root |-> [root EXCEPT !.options = Append(@, r.node)], opened |-> Null]
  ELSE IF check(st, "ENUM")
  THEN LET r == Invoke("openEnum", st, <<>>) IN [st |-> r.st, root |-> root, opened |-> r.opened]
  ELSE IF check(st, "EXTEND")
  THEN LET r == Invoke("openExtend", st, <<>>) IN [st |-> r.st, root |-> root, opened |-> r.opened]
  ELSE IF check(st, "MESSAGE")
  THEN LET r == Invoke("openMessage", st, <<>>) IN [st |-> r.st, root |-> root, opened |-> r.opened]
  ELSE IF check(st, "SERVICE")
  THEN LET r == Invoke("openService", st, <<>>) IN [st |-> r.st, root |-> root, opened |-> r.opened]
  ELSE [st |-> [(IF ~check(st, "SEMICOLON")
                 THEN addError(st, "Unknown token in proto file: ", current(st).value, <<>>)
                 ELSE st) EXCEPT !.pos = @ + 1],
        root |-> root, opened |-> Null]

\* ------------------------------------------------------------ the generator

RECURSIVE getWhitespace(_)
\* compiler/helper.getWhitespace
getWhitespace(count) == IF count <= 0 THEN <<>> ELSE <<" ">> \o getWhitespace(count - 1)

NumericTypes ==
  {s_double, s_float, s_int32, s_int64, s_uint32, s_uint64,
   s_sint32, s_sint64, s_fixed32, s_fixed64, s_sfixed32, s_sfixed64}

\* compiler/helper.transformInternalType
transformInternalType(type) ==
  IF type \in NumericTypes THEN s_number
  ELSE IF type = s_bool THEN s_boolean
  ELSE IF type = s_string THEN s_string
  ELSE IF type = s_bytes THEN s_Uint8Array
  ELSE IF type = s_map THEN s_Map
  ELSE type

RECURSIVE JoinStrings(_, _)
\* Array.prototype.join
JoinStrings(parts, separator) ==
  IF Len(parts) = 0 THEN <<>>
  ELSE IF Len(parts) = 1 THEN parts[1]
  ELSE parts[1] \o separator \o JoinStrings(Tail(parts), separator)

\* field.label?.value === text
LabelIs(f, text) == f.label # Null /\ f.label.value = text

\* the prefix transformFieldType computes
FieldPrefix(f) == IF LabelIs(f, s_optional) THEN <<"?", ":", " ">> ELSE <<":", " ">>

\* a suffix given to every labelled field
FieldSuffixOnAnyLabel(f) == IF f.label # Null THEN <<"[", "]">> ELSE <<>>

\* the suffix transformFieldType computes
FieldSuffix(f) == IF LabelIs(f, s_repeated) THEN <<"[", "]">> ELSE <<>>

\* compiler/helper.transformFieldType
transformFieldType(f) ==
  LET fieldType == f.fieldType
      prefix == FieldPrefix(f)
      suffix == FieldSuffix(f) IN
  IF fieldType.name \in NumericTypes THEN prefix \o s_number \o suffix
  ELSE IF fieldType.name = s_bool THEN prefix \o s_boolean \o suffix
  ELSE IF fieldType.name = s_string THEN prefix \o s_string \o suffix
  ELSE IF fieldType.name = s_bytes THEN prefix \o s_Uint8Array \o suffix
  ELSE IF Len(fieldType.arguments) > 0
  THEN LET name == IF fieldType.name = s_map THEN s_Map ELSE fieldType.name
           args == [i \in 1..Len(fieldType.arguments) |->
                      transformInternalType(fieldType.arguments[i].value)] IN
       prefix \o name \o <<"<">> \o JoinStrings(args, <<",", " ">>) \o <<">">> \o suffix
  ELSE prefix \o fieldType.name \o suffix

\* GenerateOptions.indentSize, 2 unless the caller gives one
DefaultIndentSize == 2

RECURSIVE GenerateFields(_, _)
\* one member line per field of a message
GenerateFields(fields, indent) ==
  IF Len(fields) = 0 THEN <<>>
  ELSE getWhitespace(indent) \o fields[1].name.value \o transformFieldType(fields[1])
         \o <<";", "\n">> \o GenerateFields(Tail(fields), indent)

RECURSIVE GenerateMessages(_, _, _)
\* the declaration blocks of a list of messages, nested messages inside their parent
GenerateMessages(messages, depth, indentSize) ==
  IF Len(messages) = 0 THEN <<>>
  ELSE LET m == messages[1] IN
       getWhitespace(depth * indentSize) \o s_interface \o <<" ">> \o m.name.value \o <<" ", "{", "\n">>
         \o GenerateFields(m.fields, (depth + 1) * indentSize)
         \o GenerateMessages(m.messages, depth + 1, indentSize)
         \o getWhitespace(depth * indentSize) \o <<"}", "\n">>
         \o GenerateMessages(Tail(messages), depth, indentSize)

\* Generate.generate: the declaration text of a file
Generate(root, options) == GenerateMessages(root.messages, 0, options.indentSize)

\* a call this._method(arg) of one Parser method by another
Invoke(method, st, arg) ==
  CASE method = "parseStringLiteral" -> parseStringLiteral(st, arg)
    [] method = "parseNumberLiteral" -> parseNumberLiteral(st, arg)
    [] method = "parseBooleanLiteral" -> parseBooleanLiteral(st, arg)
    [] method = "parseSyntax" -> parseSyntax(st)
    [] method = "parseIdentifier" -> parseIdentifier(st, arg)
    [] method = "parseQualifiedIdentifier" -> parseQualifiedIdentifier(st, arg)
    [] method = "parsePackage" -> parsePackage(st)
    [] method = "parseImport" -> parseImport(st)
    [] method = "parseOptionName" -> parseOptionName(st)
    [] method = "parseOptionValue" -> parseOptionValue(st, arg)
    [] method = "parseOption" -> parseOption(st)
    [] method = "parseFieldOptions" -> parseFieldOptions(st)
    [] method = "parseEnumField" -> parseEnumField(st)
    [] method = "parseTo" -> parseTo(st)
    [] method = "parseReserved" -> parseReserved(st)
    [] method = "parseLabel" -> parseLabel(st)
    [] method = "parseFieldType" -> parseFieldType(st)
    [] method = "parseField" -> parseField(st)
    [] method = "parseExtensions" -> parseExtensions(st)
    [] method = "parseRpcMethod" -> parseRpcMethod(st)
    [] method = "openEnum" -> openEnum(st)
    [] method = "openExtend" -> openExtend(st)
    [] method = "openOneof" -> openOneof(st)
    [] method = "openMessage" -> openMessage(st)
    [] method = "openService" -> openService(st)
    [] method = "enumBody" -> enumBody(st, arg)
    [] method = "extendBody" -> extendBody(st, arg)
    [] method = "oneofBody" -> oneofBody(st, arg)
    [] method = "serviceBody" -> serviceBody(st, arg)
    [] method = "messageBody" -> messageBody(st, arg)
    [] method = "topLevel" -> topLevel(st, arg)

\* the loop body of the body function of a kind
BodyFunction(kind) ==
  CASE kind = "MESSAGE" -> "messageBody"
    [] kind = "ENUM" -> "enumBody"
    [] kind = "ONEOF" -> "oneofBody"
    [] kind = "EXTEND" -> "extendBody"
    [] kind = "SERVICE" -> "serviceBody"

\* ------------------------------------------------------ Parser.parse, stepwise

\* how many errors one token of input is allowed to account for before a run is
\* cut off: only a body loop that has stopped advancing records that many
ErrorsPerToken == 4

\* no run that ends records this many errors
ErrorCap == ErrorsPerToken * (Len(ptokens) + 1)

SetParser(st) ==
  /\ ppos' = st.pos
  /\ perrors' = st.errs

\* the tokens parse keeps: this._tokens.filter((token) => token.type !== COMMENT)
FilterComments(ts) == SelectSeq(ts, LAMBDA token : token.type # "COMMENT")

\* the root node parse creates before it reads anything
NewProtoFile(ts) ==
  [type |-> "PROTO_FILE",
   position |-> createPosition(0, ts[Len(ts)].end, ts[1]),
   syntax |-> Null, package |-> Null, imports |-> <<>>, options |-> <<>>,
   enums |-> <<>>, extends |-> <<>>, messages |-> <<>>, services |-> <<>>]

\* a start of parse() that never reads a leading syntax statement
ParseBeginWithoutSyntax ==
  /\ pc = "tokenized"
  /\ Len(errors) = 0
  /\ constructed' = constructed \cup {"Parser"}
  /\ ptokens' = FilterComments(tokens)
  /\ IF Len(ptokens') = 0
     THEN /\ pc' = "threw"
          /\ UNCHANGED <<ppos, perrors, protoFile>>
     ELSE /\ pc' = "parsing"
          /\ SetParser([pos |-> 0, errs |-> <<>>])
          /\ protoFile' = NewProtoFile(ptokens')
  /\ UNCHANGED <<source, lexerVars, stack, ast, genVars, returned, result>>

\* compile: no lexical error, so new Parser(tokens) and the start of parse(): the
\* comments are filtered out, the root node is created and a leading syntax
\* statement is read. With no token left, this._tokens[this._tokens.length - 1]
\* is undefined and reading its .end throws a TypeError.
ParseBegin ==
  /\ pc = "tokenized"
  /\ Len(errors) = 0
  /\ constructed' = constructed \cup {"Parser"}
  /\ ptokens' = FilterComments(tokens)
  /\ IF Len(ptokens') = 0
     THEN /\ pc' = "threw"
          /\ UNCHANGED <<ppos, perrors, protoFile>>
     ELSE /\ pc' = "parsing"
          /\ LET st == [pos |-> 0, errs |-> <<>>] IN
             IF ptokens'[1].type = "SYNTAX"
             THEN LET r == Invoke("parseSyntax", st, <<>>)' IN
                  /\ SetParser(r.st)
                  /\ protoFile' = [NewProtoFile(ptokens') EXCEPT !.syntax = r.node]
             ELSE /\ SetParser(st)
                  /\ protoFile' = NewProtoFile(ptokens')
  /\ UNCHANGED <<source, lexerVars, stack, ast, genVars, returned, result>>

\* one pass through the top-level loop of parse
TopLevelIteration ==
  /\ pc = "parsing"
  /\ stack = <<>>
  /\ ppos < Len(ptokens)
  /\ LET r == Invoke("topLevel", ParserState, protoFile) IN
       /\ SetParser(r.st)
       /\ protoFile' = r.root
       /\ stack' = IF r.opened = Null THEN stack ELSE <<r.opened>>
  /\ UNCHANGED <<source, lexerVars, ptokens, ast, constructed, genVars, returned, result, pc>>

\* the body function whose loop is running
Top == stack[Len(stack)]

\* one pass through the body loop of the innermost open body function
BodyIteration(kind) ==
  /\ pc = "parsing"
  /\ stack # <<>>
  /\ Top.kind = kind
  /\ BodyLoopCondition(ParserState)
  /\ Len(perrors) < ErrorCap
  /\ LET r == Invoke(BodyFunction(kind), ParserState, Top)
         kept == [stack EXCEPT ![Len(stack)] = r.frame] IN
       /\ SetParser(r.st)
       /\ stack' = IF r.opened = Null THEN kept ELSE Append(kept, r.opened)
  /\ UNCHANGED <<source, lexerVars, ptokens, protoFile, ast, constructed, genVars, returned, result, pc>>

MessageBodyIteration == BodyIteration("MESSAGE")

EnumBodyIteration == BodyIteration("ENUM")

OneofBodyIteration == BodyIteration("ONEOF")

ExtendBodyIteration == BodyIteration("EXTEND")

ServiceBodyIteration == BodyIteration("SERVICE")

\* the body loop of the innermost open body function ends: its closing brace is
\* expected, its node is built and returned to the caller, which appends it
BodyReturn ==
  /\ pc = "parsing"
  /\ stack # <<>>
  /\ ~BodyLoopCondition(ParserState)
  /\ LET r == closeBody(ParserState, Top)
         outer == SubSeq(stack, 1, Len(stack) - 1) IN
       /\ SetParser(r.st)
       /\ IF outer = <<>>
          THEN /\ protoFile' = Receive(protoFile, r.node)
               /\ stack' = outer
          ELSE /\ stack' = [outer EXCEPT ![Len(outer)] = Receive(@, r.node)]
               /\ UNCHANGED protoFile
  /\ UNCHANGED <<source, lexerVars, ptokens, ast, constructed, genVars, returned, result, pc>>

\* the top-level loop ends: parse returns { ast: protoFile, errors }
ParseReturn ==
  /\ pc = "parsing"
  /\ stack = <<>>
  /\ ppos >= Len(ptokens)
  /\ ast' = protoFile
  /\ pc' = "parsed"
  /\ UNCHANGED <<source, lexerVars, ptokens, ppos, perrors, protoFile, stack, constructed,
                 genVars, returned, result>>

\* ------------------------------------------------------------------ compile

\* a number, undefined or NaN as a JavaScript value
JSNumber(n) == [number |-> n]
JSUndefined == [undefined |-> TRUE]
JSNaN == [NaN |-> TRUE]

\* the record compile makes of a lexical error: error.position is not a field of
\* LexerError, so start is undefined and end, undefined + 1, is NaN
CompilerError(error) ==
  [message |-> error.message, detail |-> error.detail,
   position |-> [line |-> error.line, column |-> error.column,
                 start |-> JSUndefined, end |-> JSNaN]]

\* compile: lexerOutput.errors.length > 0
ReturnLexicalErrors ==
  /\ pc = "tokenized"
  /\ Len(errors) > 0
  /\ result' = [code |-> <<>>, errors |-> [i \in 1..Len(errors) |-> CompilerError(errors[i])]]
  /\ pc' = "done"
  /\ UNCHANGED <<source, lexerVars, parserVars, constructed, genVars, returned>>

\* a compile that hands the tree to the generator although parse reported errors
ReturnSyntaxErrorsWithCode ==
  /\ pc = "parsed"
  /\ (Len(perrors) > 0 \/ ast = Null)
  /\ result' = [code |-> Generate(ast, [indentSize |-> DefaultIndentSize]), errors |-> perrors]
  /\ pc' = "done"
  /\ UNCHANGED <<source, lexerVars, parserVars, constructed, genVars, returned>>

\* compile: parserOutput.errors.length > 0 || parserOutput.ast === null
ReturnSyntaxErrors ==
  /\ pc = "parsed"
  /\ (Len(perrors) > 0 \/ ast = Null)
  /\ result' = [code |-> <<>>, errors |-> perrors]
  /\ pc' = "done"
  /\ UNCHANGED <<source, lexerVars, parserVars, constructed, genVars, returned>>

\* a compile that runs the generator on whatever parse returned
ReturnGeneratedUnchecked ==
  /\ pc = "parsed"
  /\ constructed' = constructed \cup {"Generate"}
  /\ result' = [code |-> Generate(ast, [indentSize |-> DefaultIndentSize]), errors |-> <<>>]
  /\ pc' = "done"
  /\ UNCHANGED <<source, lexerVars, parserVars, genVars, returned>>

\* compile: new Generate(parserOutput.ast, options).generate(), options left out
ReturnGenerated ==
  /\ pc = "parsed"
  /\ ~(Len(perrors) > 0 \/ ast = Null)
  /\ constructed' = constructed \cup {"Generate"}
  /\ result' = [code |-> Generate(ast, [indentSize |-> DefaultIndentSize]), errors |-> <<>>]
  /\ pc' = "done"
  /\ UNCHANGED <<source, lexerVars, parserVars, genVars, returned>>

\* the calls of compile made on one input
MaxCalls == 2

\* a further call that goes on with the Lexer of the call before
CompileAgainOnUsedLexer ==
  /\ pc = "done"
  /\ Len(returned) + 1 < MaxCalls
  /\ returned' = Append(returned, result)
  /\ position' = 0
  /\ line' = 1
  /\ column' = 1
  /\ ptokens' = <<>>
  /\ ppos' = 0
  /\ perrors' = <<>>
  /\ protoFile' = Null
  /\ stack' = <<>>
  /\ ast' = Null
  /\ constructed' = {"Lexer"}
  /\ result' = Null
  /\ pc' = "tokenize"
  /\ UNCHANGED <<source, tokens, errors, genVars>>

\* compile called again with the same input and options: new Lexer(input) starts
\* from the field initialisers of the class, and no Parser or Generate exists yet
CompileAgain ==
  /\ pc = "done"
  /\ Len(returned) + 1 < MaxCalls
  /\ returned' = Append(returned, result)
  /\ position' = 0
  /\ line' = 1
  /\ column' = 1
  /\ tokens' = <<>>
  /\ errors' = <<>>
  /\ ptokens' = <<>>
  /\ ppos' = 0
  /\ perrors' = <<>>
  /\ protoFile' = Null
  /\ stack' = <<>>
  /\ ast' = Null
  /\ constructed' = {"Lexer"}
  /\ result' = Null
  /\ pc' = "tokenize"
  /\ UNCHANGED <<source, genVars>>

\* parse() called again on the same Parser instance: the call filters the tokens
\* and makes a new root node, and goes on from the cursor and the error list the
\* call before left, since neither _position nor _errors is assigned in parse
ParseAgain ==
  /\ pc = "parsed"
  /\ Len(returned) + 1 < MaxCalls
  /\ returned' = Append(returned, [ast |-> ast, errors |-> perrors])
  /\ ptokens' = FilterComments(ptokens)
  /\ IF Len(ptokens') = 0
     THEN /\ pc' = "threw"
          /\ UNCHANGED <<ppos, perrors, protoFile>>
     ELSE /\ pc' = "parsing"
          /\ IF check(ParserState, "SYNTAX")
             THEN LET r == Invoke("parseSyntax", ParserState, <<>>)' IN
                  /\ SetParser(r.st)
                  /\ protoFile' = [NewProtoFile(ptokens') EXCEPT !.syntax = r.node]
             ELSE /\ SetParser(ParserState)
                  /\ protoFile' = NewProtoFile(ptokens')
  /\ ast' = Null
  /\ UNCHANGED <<source, lexerVars, stack, constructed, genVars, result>>

\* transformFieldType called on a field node
TransformFieldType ==
  /\ pc = "transform"
  /\ fieldText' = transformFieldType(field)
  /\ pc' = "transformed"
  /\ UNCHANGED <<source, lexerVars, parserVars, constructed, field, result, returned>>

\* ------------------------------------------------------------------- inputs

\* the longest text of the character-level inputs
MaxLen == 4

\* how many statements a generated source holds
MaxStmts == 2

\* how many members a generated body holds
MaxItems == 1

\* every sequence over S of at most n elements
SeqsUpTo(S, n) == UNION {[1..k -> S] : k \in 0..n}

\* the characters of the character-level inputs: one of each class tokenize tells apart
LexAlphabet == {"a", "1", " ", "\n", "/", "*", "\"", "\\", "-", ".", ";", "#"}

CharSources == SeqsUpTo(LexAlphabet, MaxLen)

Quoted(text) == <<"\"">> \o text \o <<"\"">>

\* words on one line
Words(ws) == JoinStrings(ws, <<" ">>)

\* statements on lines of their own
Lines(ls) == JoinStrings(ls, <<"\n">>)

\* statements of the top level
TopStatements ==
  { Words(<<s_syntax, <<"=">>, Quoted(s_proto3) \o <<";">>>>),
    Words(<<s_package, s_example \o <<".">> \o s_name \o <<";">>>>),
    Words(<<s_package, <<";">>>>),
    Words(<<s_import, s_public, Quoted(<<"a">>) \o <<";">>>>),
    Words(<<s_option, <<"(", "a", ".", "b", ")", ".", "c">>, <<"=">>, s_true \o <<";">>>>),
    <<"/", "/", " ", "c">>,
    <<"/", "*", " ", "c", " ", "*", "/">>,
    <<" ">>,
    <<"#">>,
    <<";">>,
    <<"\"", "a">>,
    Quoted(<<"a", " ", "b">>),
    <<"}">> }

\* the headers of the body functions
Openers ==
  { Words(<<s_message, <<"M">>, <<"{">>>>),
    Words(<<s_enum, <<"E">>, <<"{">>>>),
    Words(<<s_extend, <<"X">>, <<"{">>>>),
    Words(<<s_service, <<"S">>, <<"{">>>>) }

\* a oneof header: only a message body reads it
OneofOpener == Words(<<s_oneof, <<"o">>, <<"{">>>>)

\* what stands where a member of a body is expected
Items ==
  { Words(<<s_string, s_name, <<"=">>, <<"1", ";">>>>),
    Words(<<s_Optional, s_int32, s_id, <<"=">>, <<"2", ";">>>>),
    Words(<<s_repeated, s_Foo \o <<".">> \o s_bar, s_tags, <<"=">>, <<"3">>,
            <<"[", "a">>, <<"=">>, <<"1", ",">>, <<"b">>, <<"=">>, Quoted(<<"x">>) \o <<"]", ";">>>>),
    Words(<<s_map \o <<"<">> \o s_string \o <<",">>, s_int32 \o <<">">>, <<"m">>, <<"=">>, <<"1", ";">>>>),
    Words(<<s_map \o <<"(">> \o s_string \o <<",">>, s_int32 \o <<")">>, <<"m">>, <<"=">>, <<"1", ";">>>>),
    Words(<<s_string, s_name, <<"=">>, <<";">>>>),
    Quoted(<<"a", " ", "b">>),
    <<"7">>,
    <<"=">>,
    Words(<<<<"A">>, <<"=">>, <<"0", ";">>>>),
    Words(<<s_reserved, <<"2", ",">>, <<"1", "5", ",">>, <<"9">>, s_to, <<"1", "1", ";">>>>),
    Words(<<s_extensions, <<"1">>, s_to, <<"5", ";">>>>),
    Words(<<s_option, <<"a">>, <<"=">>, <<"1", ";">>>>),
    Words(<<s_rpc, s_Get, <<"(">> \o s_Req \o <<")">>, s_returns, <<"(">> \o s_Res \o <<")", ";">>>>),
    Words(<<OneofOpener, s_string, s_name, <<"=">>, <<"1", ";">>, <<"}">>>>),
    Words(<<OneofOpener, Quoted(<<"a", " ", "b">>), <<"}">>>>),
    Words(<<s_message, <<"N">>, <<"{">>, <<"}">>>>),
    Words(<<s_Foo, s_bar, <<"=">>, <<"1", ";">>>>),
    Words(<<s_message, <<"N">>, <<"=">>, <<"1", ";">>>>),
    Words(<<s_message, <<"7">>, <<"{">>, <<"}">>>>),
    Words(<<s_enum, <<"E">>, <<"{">>, <<"A">>, <<"=">>, <<"0", ";">>, <<"}">>>>),
    Words(<<s_extend, <<"X">>, <<"{">>, s_string, s_name, <<"=">>, <<"1", ";">>, <<"}">>>>) }

\* a body function's text: header, members, closing brace
Blocks ==
  { Words(<<opener>> \o items \o << <<"}">> >>) : opener \in Openers, items \in SeqsUpTo(Items, MaxItems) }

\* statements of the top level and headers left open, on lines of their own
TopSources ==
  { Lines(stmts) : stmts \in SeqsUpTo(TopStatements \cup Openers \cup {OneofOpener}, MaxStmts) }

\* the example of the README and of the documentation
PersonExample ==
  Lines(<< Words(<<s_syntax, <<"=">>, Quoted(s_proto3) \o <<";">>>>),
           Words(<<s_package, s_example \o <<";">>>>),
           Words(<<s_message, s_Person, <<"{">>>>),
           Words(<<s_string, s_name, <<"=">>, <<"1", ";">>>>),
           Words(<<s_optional, s_int32, s_id, <<"=">>, <<"2", ";">>>>),
           Words(<<s_repeated, s_string, s_tags, <<"=">>, <<"3", ";">>>>),
           <<"}">> >>)

\* the same example written on one line
PersonLine ==
  Words(<< s_syntax, <<"=">>, Quoted(s_proto3) \o <<";">>,
           s_package, s_example \o <<";">>,
           s_message, s_Person, <<"{">>,
           s_string, s_name, <<"=">>, <<"1", ";">>,
           s_optional, s_int32, s_id, <<"=">>, <<"2", ";">>,
           s_repeated, s_string, s_tags, <<"=">>, <<"3", ";">>,
           <<"}">> >>)

\* a string literal left open after a block comment on the same line
OpenStringAfterComment == Words(<< <<"/", "*", " ", "c", " ", "*", "/">>, <<"\"", "a">> >>)

\* a string literal left open after a string literal that holds a line break
OpenStringAfterString == Words(<< Quoted(<<"a", "\n", "b">>), <<"\"", "a">> >>)

Scenarios == {PersonExample, PersonLine, OpenStringAfterComment, OpenStringAfterString}

\* the longest list of a reserved statement
MaxRanges == 3

\* the items of a reserved list: a number, a string, a range "n to m"
ReservedItems ==
  { [kind |-> "number", a |-> <<"2">>, b |-> <<>>],
    [kind |-> "number", a |-> <<"1", "5">>, b |-> <<>>],
    [kind |-> "string", a |-> <<"a">>, b |-> <<>>],
    [kind |-> "to", a |-> <<"9">>, b |-> <<"1", "1">>] }

\* the text of an item of a reserved list
ReservedItemText(item) ==
  CASE item.kind = "number" -> item.a
    [] item.kind = "string" -> Quoted(item.a)
    [] item.kind = "to" -> Words(<<item.a, s_to, item.b>>)

\* the non-empty lists of a reserved statement
ReservedLists == SeqsUpTo(ReservedItems, MaxRanges) \ {<<>>}

\* a message or an enum whose body is one reserved statement with this list
ReservedSource(opener, list) ==
  Words(<<opener, s_reserved,
          JoinStrings([i \in 1..Len(list) |-> ReservedItemText(list[i])], <<",", " ">>) \o <<";">>,
          <<"}">>>>)

\* the bodies that read a reserved statement
ReservedOpeners == {Words(<<s_message, <<"M">>, <<"{">>>>), Words(<<s_enum, <<"E">>, <<"{">>>>)}

\* every reserved statement of the model with the list it was written from
ReservedCases ==
  { [src |-> ReservedSource(opener, list), list |-> list] :
      opener \in ReservedOpeners, list \in ReservedLists }

ReservedSources == { c.src : c \in ReservedCases }

\* fields whose number is missing after "="
FieldsWithoutNumber ==
  { Words(<<s_string, s_name, <<"=">>, <<";">>>>),
    Words(<<s_optional, s_int32, s_id, <<"=">>, <<";">>>>) }

\* a message or an extend whose one member is a field without its number
MissingNumberSources ==
  { Words(<<opener, f, <<"}">>>>) :
      opener \in {Words(<<s_message, <<"M">>, <<"{">>>>), Words(<<s_extend, <<"X">>, <<"{">>>>)},
      f \in FieldsWithoutNumber }

\* what stands after "=" in an option: its text and the kind and value (flag for a
\* boolean) of the value node it should give
OptionValues ==
  { [text |-> Quoted(<<"x">>), kind |-> "STRING_LITERAL", value |-> <<"x">>, flag |-> FALSE],
    [text |-> <<"1">>, kind |-> "NUMBER_LITERAL", value |-> <<"1">>, flag |-> FALSE],
    [text |-> s_true, kind |-> "BOOLEAN_LITERAL", value |-> <<>>, flag |-> TRUE],
    [text |-> s_false, kind |-> "BOOLEAN_LITERAL", value |-> <<>>, flag |-> FALSE],
    [text |-> <<"T", "r", "u", "e">>, kind |-> "BOOLEAN_LITERAL", value |-> <<>>, flag |-> FALSE],
    [text |-> <<"b">>, kind |-> "NONE", value |-> <<>>, flag |-> FALSE],
    [text |-> <<>>, kind |-> "NONE", value |-> <<>>, flag |-> FALSE] }

\* a top-level option statement with this value
TopOptionSource(v) == Words(<<s_option, <<"a">>, <<"=">>, v.text \o <<";">>>>)

\* a field with one bracketed option with this value
FieldOptionSource(v) ==
  Words(<<s_message, <<"M">>, <<"{">>, s_string, s_name, <<"=">>, <<"1">>,
          <<"[", "a">>, <<"=">>, v.text \o <<"]", ";">>, <<"}">>>>)

\* every option of the model with the value it was written with
OptionCases ==
  { [src |-> TopOptionSource(v), v |-> v, top |-> TRUE] : v \in OptionValues } \cup
  { [src |-> FieldOptionSource(v), v |-> v, top |-> FALSE] : v \in OptionValues }

OptionSources == { c.src : c \in OptionCases }

\* one statement of each kind the top-level loop reads
SimpleStatements ==
  { [kind |-> "package", text |-> Words(<<s_package, <<"p", ";">>>>)],
    [kind |-> "import", text |-> Words(<<s_import, Quoted(<<"a">>) \o <<";">>>>)],
    [kind |-> "option", text |-> Words(<<s_option, <<"a">>, <<"=">>, <<"1", ";">>>>)],
    [kind |-> "enum", text |-> Words(<<s_enum, <<"E">>, <<"{">>, <<"}">>>>)],
    [kind |-> "extend", text |-> Words(<<s_extend, <<"X">>, <<"{">>, <<"}">>>>)],
    [kind |-> "message", text |-> Words(<<s_message, <<"M">>, <<"{">>, <<"}">>>>)],
    [kind |-> "service", text |-> Words(<<s_service, <<"S">>, <<"{">>, <<"}">>>>)] }

\* what stands before the syntax statement: a comment, or a token of another statement
BeforeSyntax ==
  { [kind |-> "comment", text |-> <<"/", "*", " ", "c", " ", "*", "/">>],
    [kind |-> "semicolon", text |-> <<";">>],
    [kind |-> "package", text |-> Words(<<s_package, <<"p", ";">>>>)] }

\* a file: something, then a syntax statement, then statements in any order
SyntaxSource(before, after) ==
  Lines(<<before.text, Words(<<s_syntax, <<"=">>, Quoted(s_proto3) \o <<";">>>>)>> \o
        [i \in 1..Len(after) |-> after[i].text])

\* every such file of the model with the statements it was written from
SyntaxCases ==
  { [src |-> SyntaxSource(before, after), before |-> before, after |-> after] :
      before \in BeforeSyntax, after \in SeqsUpTo(SimpleStatements, MaxStmts) }

SyntaxSources == { c.src : c \in SyntaxCases }

\* qualified names: a well-formed one, and ones with a "." that no identifier follows
QualifiedNames ==
  { [text |-> <<"a", ".", "b", ".", "c">>, good |-> TRUE],
    [text |-> <<"a", ".">>, good |-> FALSE],
    [text |-> <<"a", ".", ".", "b">>, good |-> FALSE],
    [text |-> <<"a", ".", "7">>, good |-> FALSE],
    [text |-> <<"a", ".", "\"", "b", "\"">>, good |-> FALSE] }

\* the places of a qualified name: a package name, a field type name, an option name
QualifiedPlaces ==
  { [place |-> "package", head |-> s_package \o <<" ">>, tail |-> <<";">>],
    [place |-> "fieldType", head |-> Words(<<s_message, <<"M">>, <<"{">>>>) \o <<" ">>,
     tail |-> <<" ">> \o Words(<<<<"f">>, <<"=">>, <<"1", ";">>, <<"}">>>>)],
    [place |-> "option", head |-> s_option \o <<" ">>,
     tail |-> <<" ">> \o Words(<<<<"=">>, <<"1", ";">>>>)] }

\* every qualified name of the model in every place
QualifiedCases ==
  { [src |-> p.head \o n.text \o p.tail, place |-> p.place, start |-> Len(p.head),
     text |-> n.text, good |-> n.good] : p \in QualifiedPlaces, n \in QualifiedNames }

QualifiedSources == { c.src : c \in QualifiedCases }

\* members of a message that begin with the extensions or the reserved keyword
KeywordMembers ==
  { Words(<<s_extensions, <<"1">>, s_to, <<"5", ";">>>>),
    Words(<<s_extensions, <<"e">>, <<"=">>, <<"1", ";">>>>),
    Words(<<s_extensions, Quoted(<<"a">>) \o <<";">>>>),
    Words(<<s_extensions, <<";">>>>),
    Words(<<s_reserved, <<"2", ";">>>>),
    Words(<<s_reserved, Quoted(<<"a">>) \o <<";">>>>),
    Words(<<s_reserved, <<"r">>, <<"=">>, <<"2", ";">>>>),
    Words(<<<<"R", "e", "s", "e", "r", "v", "e", "d">>, <<"r">>, <<"=">>, <<"2", ";">>>>),
    Words(<<s_reserved, <<";">>>>) }

\* a message whose one member begins with one of the two keywords
KeywordMemberSources ==
  { Words(<<s_message, <<"M">>, <<"{">>, member, <<"}">>>>) : member \in KeywordMembers }

\* files in which the string literal "Foo" stands where a name is required: a
\* message, enum, service, package, oneof, field and option name, a field type name
StringNameSources ==
  { Words(<<s_message, Quoted(s_Foo), <<"{">>, <<"}">>>>),
    Words(<<s_enum, Quoted(s_Foo), <<"{">>, <<"}">>>>),
    Words(<<s_service, Quoted(s_Foo), <<"{">>, <<"}">>>>),
    Words(<<s_package, Quoted(s_Foo) \o <<";">>>>),
    Words(<<s_option, Quoted(s_Foo), <<"=">>, <<"1", ";">>>>),
    Words(<<s_message, <<"M">>, <<"{">>, s_oneof, Quoted(s_Foo), <<"{">>, <<"}">>, <<"}">>>>),
    Words(<<s_message, <<"M">>, <<"{">>, s_string, Quoted(s_Foo), <<"=">>, <<"1", ";">>, <<"}">>>>),
    Words(<<s_message, <<"M">>, <<"{">>, s_optional, Quoted(s_Foo), <<"f">>, <<"=">>, <<"1", ";">>, <<"}">>>>) }

Sources ==
  Scenarios \cup TopSources \cup Blocks \cup ReservedSources \cup MissingNumberSources \cup
  OptionSources \cup SyntaxSources \cup QualifiedSources \cup KeywordMemberSources \cup
  StringNameSources

\* the labels a field handed to transformFieldType carries
GenLabels ==
  {Null} \cup {[type |-> "FIELD_LABEL", value |-> v] :
                 v \in {s_optional, s_required, s_repeated, s_Optional}}

\* the type names a field handed to transformFieldType carries
GenTypeNames == NumericTypes \cup {s_bool, s_string, s_bytes, s_map, s_Foo}

\* the type arguments a field handed to transformFieldType carries
GenArguments ==
  { <<>>,
    <<[type |-> "IDENTIFIER", value |-> s_string], [type |-> "IDENTIFIER", value |-> s_int32]>>,
    <<[type |-> "IDENTIFIER", value |-> s_bool], [type |-> "IDENTIFIER", value |-> s_Foo]>> }

GenFields ==
  { [type |-> "FIELD", label |-> l,
     fieldType |-> [type |-> "FIELD_TYPE", name |-> n, arguments |-> a]] :
    l \in GenLabels, n \in GenTypeNames, a \in GenArguments }

\* ----------------------------------------------------------- specifications

\* compile(input) is called: new Lexer(input) and the first pass of tokenize
Start(input) ==
  /\ source = input
  /\ position = 0
  /\ line = 1
  /\ column = 1
  /\ tokens = <<>>
  /\ errors = <<>>
  /\ ptokens = <<>>
  /\ ppos = 0
  /\ perrors = <<>>
  /\ protoFile = Null
  /\ stack = <<>>
  /\ ast = Null
  /\ constructed = {"Lexer"}
  /\ field = Null
  /\ fieldText = <<>>
  /\ result = Null
  /\ returned = <<>>
  /\ pc = "tokenize"

Init == \E input \in Sources : Start(input)

Tokenize ==
  \/ SkipWhitespace
  \/ ReadLineComment
  \/ ReadBlockComment
  \/ ReadStringLiteral
  \/ ReadNumber
  \/ ReadIdentifier
  \/ ReadSymbol
  \/ UnknownCharacter
  \/ TokenizeReturn

Parse ==
  \/ ParseBegin
  \/ TopLevelIteration
  \/ MessageBodyIteration
  \/ EnumBodyIteration
  \/ OneofBodyIteration
  \/ ExtendBodyIteration
  \/ ServiceBodyIteration
  \/ BodyReturn
  \/ ParseReturn

Next ==
  \/ Tokenize
  \/ Parse
  \/ ReturnLexicalErrors
  \/ ReturnSyntaxErrors
  \/ ReturnGenerated

\* compile on the generated sources
Spec == Init /\ [][Next]_vars

\* the inputs compile is called on more than once: the scenarios, every top-level
\* statement alone and every body with one member
TwiceSources ==
  Scenarios \cup MissingNumberSources \cup TopStatements \cup
  { Words(<<opener, item, <<"}">>>>) : opener \in Openers, item \in Items }

InitTwice == \E input \in TwiceSources : Start(input)

\* compile called MaxCalls times on the same input
SpecTwice == InitTwice /\ [][Next \/ CompileAgain]_vars

\* new Parser(tokens).parse() on the tokens of an input, and parse() called on
\* that Parser until MaxCalls calls have been made
SpecParseTwice == InitTwice /\ [][Tokenize \/ Parse \/ ParseAgain]_vars

\* words in several letter cases with the token kind of each
WordCases ==
  { [text |-> <<"M", "e", "s", "s", "a", "g", "e">>, kind |-> "MESSAGE"],
    [text |-> <<"M", "E", "S", "S", "A", "G", "E">>, kind |-> "MESSAGE"],
    [text |-> s_message, kind |-> "MESSAGE"],
    [text |-> <<"m", "E", "s", "s", "a", "g", "e">>, kind |-> "MESSAGE"],
    [text |-> <<"E", "n", "u", "m">>, kind |-> "ENUM"],
    [text |-> <<"T", "R", "U", "E">>, kind |-> "TRUE"],
    [text |-> s_message \o <<"1">>, kind |-> "IDENTIFIER"],
    [text |-> <<"_">> \o s_message, kind |-> "IDENTIFIER"],
    [text |-> <<"M", "e", "s", "s", "a", "g", "e", "_", "E", "n", "u", "m">>, kind |-> "IDENTIFIER"],
    [text |-> s_Foo, kind |-> "IDENTIFIER"],
    [text |-> <<"_", "1">>, kind |-> "IDENTIFIER"] }

\* texts of one or two of these words, apart or with a dot between them
WordSources ==
  { c.text : c \in WordCases } \cup
  { c.text \o sep \o d.text : c \in WordCases, d \in WordCases, sep \in {<<" ">>, <<".">>} }

\* the most pieces between the quotes of a string literal
MaxPieces == 2

\* the pieces of the text between two quotes, each with what it stands for
StringPieces ==
  { [text |-> <<"a">>, value |-> <<"a">>],
    [text |-> <<"n">>, value |-> <<"n">>],
    [text |-> <<"\n">>, value |-> <<"\n">>],
    [text |-> <<"\\", "n">>, value |-> <<"\n">>],
    [text |-> <<"\\", "t">>, value |-> <<"\t">>],
    [text |-> <<"\\", "r">>, value |-> <<"\r">>],
    [text |-> <<"\\", "\\">>, value |-> <<"\\">>],
    [text |-> <<"\\", "\"">>, value |-> <<"\"">>],
    [text |-> <<"\\", "a">>, value |-> <<"a">>],
    [text |-> <<"\\", "/">>, value |-> <<"/">>] }

\* the texts of a sequence of pieces, one after the other
Concat(parts) == JoinStrings(parts, <<>>)

\* every terminated string literal of the model with the value it stands for
StringCases ==
  { [src |-> Quoted(Concat([i \in 1..Len(ps) |-> ps[i].text])),
     value |-> Concat([i \in 1..Len(ps) |-> ps[i].value])] :
      ps \in SeqsUpTo(StringPieces, MaxPieces) }

StringSources == { c.src : c \in StringCases }

InitLexer == \E input \in CharSources \cup WordSources \cup StringSources : Start(input)

\* new Lexer(input).tokenize() on every short text
SpecLexer == InitLexer /\ [][Tokenize]_vars

InitGen ==
  /\ field \in GenFields
  /\ fieldText = <<>>
  /\ pc = "transform"
  /\ source = <<>>
  /\ position = 0
  /\ line = 1
  /\ column = 1
  /\ tokens = <<>>
  /\ errors = <<>>
  /\ ptokens = <<>>
  /\ ppos = 0
  /\ perrors = <<>>
  /\ protoFile = Null
  /\ stack = <<>>
  /\ ast = Null
  /\ constructed = {}
  /\ result = Null
  /\ returned = <<>>

\* transformFieldType on every field of GenFields
SpecGen == InitGen /\ [][TransformFieldType]_vars

\* ------------------------------------------------------- the syntax tree

\* a child that may be null, as a list of nodes
Present(node) == IF node = Null THEN <<>> ELSE <<node>>

\* the child nodes of a node, kind by kind as ASTType declares them
Children(node) ==
  CASE node.type = "PROTO_FILE" ->
         Present(node.syntax) \o Present(node.package) \o node.imports \o node.options \o
         node.enums \o node.extends \o node.messages \o node.services
    [] node.type = "SYNTAX" -> <<node.version>>
    [] node.type = "PACKAGE" -> <<node.name>>
    [] node.type = "IMPORT" -> <<node.path>>
    [] node.type \in {"OPTION", "FIELD_OPTION"} -> <<node.name, node.value>>
    [] node.type = "TO" -> <<node.start, node.end>>
    [] node.type \in {"RESERVED", "EXTENSIONS"} -> node.ranges
    [] node.type = "FIELD_TYPE" -> node.arguments
    [] node.type = "FIELD" ->
         Present(node.label) \o <<node.fieldType, node.name, node.fieldNumber>> \o node.options
    [] node.type = "ENUM_FIELD" -> <<node.name, node.value>> \o node.options
    [] node.type = "ENUM" -> <<node.name>> \o node.fields \o node.reserved \o node.options
    [] node.type \in {"EXTEND", "ONEOF"} -> <<node.name>> \o node.fields
    [] node.type = "MESSAGE" ->
         <<node.name>> \o node.fields \o node.oneofs \o node.enums \o Present(node.extensions) \o
         node.extends \o node.reserved \o node.messages
    [] node.type = "RPC_METHOD" -> <<node.name, node.inputType, node.outputType>>
    [] node.type = "SERVICE" -> <<node.name>> \o node.methods
    [] OTHER -> <<>>

RECURSIVE Nodes(_)
\* every node of the tree under a node, the node itself included
Nodes(node) ==
  {node} \cup UNION {Nodes(Children(node)[i]) : i \in 1..Len(Children(node))}

\* every node of the tree parse has returned
TreeNodes == IF ast = Null THEN {} ELSE Nodes(ast)

\* every field node of the tree parse has returned
TreeFields == {n \in TreeNodes : n.type = "FIELD"}

\* the span of parent contains the span of child
Contains(parent, child) ==
  /\ child.position.start >= parent.position.start
  /\ child.position.end <= parent.position.end

\* ------------------------------------------------------------------- claims

\* compile has returned
Returned == pc = "done"

\* the record compile returns repeats the lexer's errors one for one, in order
SameLexicalErrors ==
  /\ Len(result.errors) = Len(errors)
  /\ \A i \in 1..Len(errors) :
       /\ result.errors[i].message = errors[i].message
       /\ result.errors[i].detail = errors[i].detail
       /\ result.errors[i].position.line = errors[i].line
       /\ result.errors[i].position.column = errors[i].column

\* C1: what compile returns has one of three shapes. With lexical errors the code
\* is empty and the errors are the lexer's, one record each, in order; else with
\* syntax errors or no root node the code is empty and the errors are the
\* parser's list; else the code is the generator's output and the errors are
\* empty. So code and errors are never both non-empty.
C1_ThreeShapes ==
  Returned =>
    /\ IF Len(errors) > 0
       THEN result.code = <<>> /\ SameLexicalErrors
       ELSE IF Len(perrors) > 0 \/ ast = Null
            THEN result.code = <<>> /\ result.errors = perrors
            ELSE /\ result.code = Generate(ast, [indentSize |-> DefaultIndentSize])
                 /\ result.errors = <<>>
    /\ ~(result.code # <<>> /\ result.errors # <<>>)

\* compile has returned in each of the three shapes: here the one with syntax
\* errors, from a source the lexer accepts
C1_Witness ==
  /\ Returned
  /\ Len(errors) = 0
  /\ Len(perrors) > 0
  /\ result.code = <<>>
  /\ result.errors = perrors

\* C2: for every input, the empty one and those of whitespace and comments only
\* included, no exception escapes compile; and after a tokenize without errors
\* parse returns a root node that is not null.
C2_NoExceptionEscapes ==
  /\ pc # "threw"
  /\ (pc \in {"parsed", "done"} /\ Len(errors) = 0) => ast # Null

\* a pass through the top-level loop or through a body loop is about to run
LoopPass ==
  /\ pc = "parsing"
  /\ \/ stack = <<>> /\ ppos < Len(ptokens)
     \/ stack # <<>> /\ BodyLoopCondition(ParserState)

\* C3: parse terminates: every pass through the top-level loop and through each
\* body loop (message, enum, oneof, extend, service) that does not leave the loop
\* strictly advances the token cursor, also when the current token in a message,
\* oneof, extend or service body is a string or number literal.
C3_EveryPassAdvances == [][LoopPass => ppos' > ppos]_vars

\* C4: tokenize terminates: each pass through its main loop, whichever branch it
\* takes, moves the scan offset forward by at least one character, and the offset
\* never passes the end of the source.
C4_OffsetAdvances ==
  [][(pc = "tokenize" /\ position < Len(source))
       => (position' >= position + 1 /\ position' <= Len(source))]_vars

\* tokenize has returned at the end of a source on which it took the unknown
\* character branch and left a block comment or a string literal open
C4_Witness ==
  /\ pc = "tokenized"
  /\ position = Len(source)
  /\ Len(errors) >= 2
  /\ \E i \in 1..Len(errors) : errors[i].message = "Unknown character: "
  /\ \E i \in 1..Len(errors) :
       errors[i].message \in {"Unterminated block comment", "Unterminated string literal"}

\* C5: in the tree parse returns every node's span contains the span of each of
\* its children: syntax, package, import, option, enum and enum-field nodes and
\* their literal and identifier children included.
C5_SpansContainChildren ==
  \A n \in TreeNodes : \A i \in 1..Len(Children(n)) : Contains(n, Children(n)[i])

\* C6: every node of the tree parse returns has position.start <= position.end,
\* whether or not syntax errors were recorded while it was built.
C6_StartBeforeEnd ==
  \A n \in TreeNodes : n.position.start <= n.position.end

\* C7: every field's label is null or a label node whose value is exactly
\* optional, required or repeated, whatever the spelling of the keyword the
\* lexer's case-insensitive lookup accepted.
C7_LabelsOfClosedSet ==
  \A f \in TreeFields :
    f.label = Null \/ f.label.value \in {s_optional, s_required, s_repeated}

\* C8: compile constructs and runs the Parser only after tokenize has returned
\* without a lexical error, and the Generator only after parse has returned
\* without a syntax error and with a root node: no stage runs on the output of a
\* stage that reported an error.
C8_StagesInOrder ==
  /\ "Parser" \in constructed =>
       /\ pc # "tokenize"
       /\ Len(errors) = 0
  /\ "Generate" \in constructed =>
       /\ "Parser" \in constructed
       /\ pc = "done"
       /\ Len(perrors) = 0
       /\ ast # Null
  /\ Len(errors) > 0 => (ptokens = <<>> /\ protoFile = Null /\ ast = Null)

\* all three stages have run, on a source with neither lexical nor syntax errors
C8_Witness ==
  /\ constructed = {"Lexer", "Parser", "Generate"}
  /\ Len(tokens) > 0
  /\ ast # Null
  /\ result # Null
  /\ result.code # <<>>

\* the fifteen scalar keywords with the base type the mapping table gives each
ScalarBase ==
  [name \in {s_double, s_float, s_int32, s_int64, s_uint32, s_uint64, s_sint32, s_sint64,
             s_fixed32, s_fixed64, s_sfixed32, s_sfixed64, s_bool, s_string, s_bytes} |->
     CASE name = s_bool -> <<"b", "o", "o", "l", "e", "a", "n">>
       [] name = s_string -> <<"s", "t", "r", "i", "n", "g">>
       [] name = s_bytes -> <<"U", "i", "n", "t", "8", "A", "r", "r", "a", "y">>
       [] OTHER -> <<"n", "u", "m", "b", "e", "r">>]

\* the field handed to transformFieldType is unlabelled or labelled optional,
\* required or repeated
FourLabels == field.label = Null \/ field.label.value \in {s_optional, s_required, s_repeated}

\* what the table asks of a field whose base type is base
Marked(base) ==
  (IF field.label # Null /\ field.label.value = s_optional THEN <<"?", ":", " ">> ELSE <<":", " ">>)
    \o base \o
  (IF field.label # Null /\ field.label.value = s_repeated THEN <<"[", "]">> ELSE <<>>)

\* C9: for each of the fifteen scalar keywords and each label of none, optional,
\* required, repeated, transformFieldType returns prefix + base + suffix: base
\* from the mapping table, prefix "?: " iff the label is optional and ": "
\* otherwise, suffix "[]" iff the label is repeated. For a type name that is no
\* scalar and has no arguments the base is the type name itself.
C9_ScalarMapping ==
  (pc = "transformed" /\ FourLabels) =>
    /\ field.fieldType.name \in DOMAIN ScalarBase =>
         fieldText = Marked(ScalarBase[field.fieldType.name])
    /\ (field.fieldType.name \notin DOMAIN ScalarBase /\ Len(field.fieldType.arguments) = 0) =>
         fieldText = Marked(field.fieldType.name)

\* transformFieldType has returned ": Uint8Array[]" for a repeated bytes field
C9_Witness ==
  /\ pc = "transformed"
  /\ field.label # Null
  /\ field.label.value = s_repeated
  /\ field.fieldType.name = s_bytes
  /\ fieldText = <<":", " ", "U", "i", "n", "t", "8", "A", "r", "r", "a", "y", "[", "]">>

\* a message whose one field is written in map syntax
MapFieldSource ==
  Words(<<s_message, <<"M">>, <<"{">>,
          s_map \o <<"<">> \o s_string \o <<",">>, s_int32 \o <<">">>, <<"m">>, <<"=">>, <<"1", ";">>,
          <<"}">>>>)

\* a field whose type node is map with the arguments string, int32, in that order
IsMapField(f) ==
  /\ f.fieldType.name = s_map
  /\ Len(f.fieldType.arguments) = 2
  /\ f.fieldType.arguments[1].value = s_string
  /\ f.fieldType.arguments[2].value = s_int32

\* C10: a message field written map<K, V> name = N; lexes and parses with zero
\* errors into a field whose type node is named map with the arguments K, V in
\* that order, and transformFieldType renders it Map<K', V'>: for
\* map<string, int32> the text ": Map<string, number>".
C10_MapFieldParses ==
  (source = MapFieldSource /\ pc \in {"parsed", "done"}) =>
    /\ Len(errors) = 0
    /\ Len(perrors) = 0
    /\ \E f \in TreeFields :
         /\ IsMapField(f)
         /\ transformFieldType(f) =
              <<":", " ", "M", "a", "p", "<", "s", "t", "r", "i", "n", "g", ",", " ",
                "n", "u", "m", "b", "e", "r", ">">>

\* a field node with the given name, type name, label text (<<>> for none) and number
IsField(f, name, typeName, label, number) ==
  /\ f.type = "FIELD"
  /\ f.name.value = name
  /\ f.fieldType.name = typeName
  /\ f.fieldType.arguments = <<>>
  /\ IF label = <<>> THEN f.label = Null ELSE (f.label # Null /\ f.label.value = label)
  /\ f.fieldNumber.type = "NUMBER_LITERAL"
  /\ f.fieldNumber.value = number

\* C11: the Person example (syntax proto3, package example, message Person with
\* string name = 1, optional int32 id = 2, repeated string tags = 3) gives zero
\* lexical and zero syntax errors, a tree with that syntax version, that package
\* name and exactly one message Person with these three fields in order, and the
\* member types ": string", "?: number" and ": string[]".
C11_PersonExample ==
  (source \in {PersonLine, PersonExample} /\ pc \in {"parsed", "done"}) =>
    /\ Len(errors) = 0
    /\ Len(perrors) = 0
    /\ ast.syntax # Null /\ ast.syntax.version.value = s_proto3
    /\ ast.package # Null /\ ast.package.name.value = s_example
    /\ Len(ast.messages) = 1
    /\ LET m == ast.messages[1] IN
         /\ m.name.value = s_Person
         /\ Len(m.fields) = 3
         /\ IsField(m.fields[1], s_name, s_string, <<>>, <<"1">>)
         /\ IsField(m.fields[2], s_id, s_int32, s_optional, <<"2">>)
         /\ IsField(m.fields[3], s_tags, s_string, s_repeated, <<"3">>)
         /\ transformFieldType(m.fields[1]) = <<":", " ">> \o s_string
         /\ transformFieldType(m.fields[2]) = <<"?", ":", " ">> \o s_number
         /\ transformFieldType(m.fields[3]) = <<":", " ">> \o s_string \o <<"[", "]">>

\* compile has returned generated code for the one-line Person example
C11_Witness ==
  /\ source = PersonLine
  /\ pc = "done"
  /\ Len(ast.messages) = 1
  /\ Len(ast.messages[1].fields) = 3
  /\ result.code # <<>>


\* the keywords that start a nested declaration in a message body
NestKeywords == {"MESSAGE", "ENUM", "ONEOF", "EXTEND"}

\* the token n places after the current one
TokenAfter(n) == IF ppos + n < Len(ptokens) THEN ptokens[ppos + 1 + n] ELSE EOF_TOKEN

\* a token that can be a name: an identifier or a keyword, not a literal or a symbol
NameToken(t) ==
  t.type \notin {"STRING_LITERAL", "NUMBER_LITERAL", "EOF"} /\ isValidIdentifier(t.value)

\* a pass of the loop of _parseMessage begins at one of the four keywords
AtNestKeyword ==
  /\ pc = "parsing"
  /\ stack # <<>>
  /\ Top.kind = "MESSAGE"
  /\ BodyLoopCondition(ParserState)
  /\ Len(perrors) < ErrorCap
  /\ current(ParserState).type \in NestKeywords

\* the pass entered the nested declaration of the keyword and added no field
NestedOpened ==
  /\ Len(stack') = Len(stack) + 1
  /\ stack'[Len(stack')].kind = current(ParserState).type
  /\ stack'[Len(stack)].fields = Top.fields

\* the pass parsed a field and entered no nested declaration
FieldParsed ==
  /\ Len(stack') = Len(stack)
  /\ Len(stack'[Len(stack)].fields) = Len(Top.fields) + 1

\* a message M whose body is the one member Foo bar = 1;
FooBarSource ==
  Words(<<s_message, <<"M">>, <<"{">>, s_Foo, s_bar, <<"=">>, <<"1", ";">>, <<"}">>>>)

\* the message has the one field Foo bar = 1 and no nested declaration
OnlyFooBar(m) ==
  /\ Len(m.fields) = 1
  /\ IsField(m.fields[1], s_bar, s_Foo, <<>>, <<"1">>)
  /\ m.messages = <<>> /\ m.enums = <<>> /\ m.oneofs = <<>> /\ m.extends = <<>>

\* C12: in a message body a message, enum, oneof or extend keyword starts a nested
\* declaration exactly when a name token and then "{" follow it, and is parsed as
\* a field in every other case; the node a nested declaration returns is appended
\* to the list of its kind, and Foo bar = 1; gives one field of type Foo named bar
\* with number 1 and no nested declaration.
C12_NestedExactlyWhenNamed ==
  [][/\ AtNestKeyword =>
          IF NameToken(TokenAfter(1)) /\ TokenAfter(2).type = "LBRACE"
          THEN NestedOpened
          ELSE FieldParsed
     /\ (source = FooBarSource /\ pc' = "parsed") =>
          (Len(ast'.messages) = 1 /\ OnlyFooBar(ast'.messages[1]))]_vars


\* the entry of a reserved node that an item of the list gives
RangeIs(node, item) ==
  CASE item.kind = "number" -> node.type = "NUMBER_LITERAL" /\ node.value = item.a
    [] item.kind = "string" -> node.type = "STRING_LITERAL" /\ node.value = item.a
    [] item.kind = "to" ->
         /\ node.type = "TO"
         /\ node.start.type = "NUMBER_LITERAL" /\ node.start.value = item.a
         /\ node.end.type = "NUMBER_LITERAL" /\ node.end.value = item.b

\* the reserved nodes of the one message or enum of the tree
ReservedOf(root) ==
  IF Len(root.messages) = 1 THEN root.messages[1].reserved
  ELSE IF Len(root.enums) = 1 THEN root.enums[1].reserved
  ELSE <<>>

\* the list of the example: reserved 2, 15, 9 to 11;
ExampleRanges ==
  << [kind |-> "number", a |-> <<"2">>, b |-> <<>>],
     [kind |-> "number", a |-> <<"1", "5">>, b |-> <<>>],
     [kind |-> "to", a |-> <<"9">>, b |-> <<"1", "1">>] >>

\* C13: a reserved statement whose list is a comma-separated sequence of number
\* literals, string literals and "n to m" ranges parses without errors into one
\* reserved node with one entry per item, in order: a number node, a string node,
\* or a to-node with both ends for a range.
C13_ReservedList ==
  \A c \in ReservedCases :
    (source = c.src /\ pc = "parsed") =>
      /\ Len(perrors) = 0
      /\ Len(ReservedOf(ast)) = 1
      /\ LET node == ReservedOf(ast)[1] IN
           /\ node.type = "RESERVED"
           /\ Len(node.ranges) = Len(c.list)
           /\ \A i \in 1..Len(c.list) : RangeIs(node.ranges[i], c.list[i])

\* the example reserved 2, 15, 9 to 11; has been parsed in a message body
C13_Witness ==
  /\ source = ReservedSource(Words(<<s_message, <<"M">>, <<"{">>>>), ExampleRanges)
  /\ pc = "parsed"
  /\ Len(ast.messages) = 1
  /\ Len(ast.messages[1].reserved) = 1
  /\ Len(ast.messages[1].reserved[1].ranges) = 3
  /\ ast.messages[1].reserved[1].ranges[3].type = "TO"


\* the line of the character at an offset: one more than the line breaks before it
LineAt(offset) == 1 + Cardinality({i \in 1..offset : source[i] = "\n"})

\* the column of the character at an offset: one more than the characters between
\* it and the last line break before it
ColumnAt(offset) ==
  LET breaks == {i \in 1..offset : source[i] = "\n"} IN
  offset + 1 - (IF breaks = {} THEN 0 ELSE CHOOSE i \in breaks : \A j \in breaks : j <= i)

\* C14: a string literal left open, with no lexical error before it, is recorded
\* at the line and column of its opening quote, and compile then returns no code
\* and exactly that one error, 'Unterminated string literal', and no syntax error.
C14_UnterminatedString ==
  [][/\ (/\ errors = <<>>
         /\ Len(errors') = 1
         /\ errors'[1].message = "Unterminated string literal") =>
          /\ errors'[1].line = LineAt(position)
          /\ errors'[1].column = ColumnAt(position)
     /\ (/\ pc' = "done"
         /\ Len(errors') >= 1
         /\ errors'[1].message = "Unterminated string literal") =>
          /\ result'.code = <<>>
          /\ Len(result'.errors) = 1
          /\ result'.errors[1].message = "Unterminated string literal"
          /\ result'.errors[1].position.line = errors'[1].line
          /\ result'.errors[1].position.column = errors'[1].column
          /\ perrors' = <<>>
          /\ "Parser" \notin constructed']_vars


\* the token that stands where the field number is expected: the one after "="
TokenAfterEqual ==
  LET k == CHOOSE i \in 1..Len(ptokens) : ptokens[i].type = "EQUAL" IN ptokens[k + 1]

\* a syntax error that expected a number literal at the token found in its place
ExpectedNumberAt(error, token) ==
  /\ \E i \in 1..Len(error.expected) : error.expected[i] = "NUMBER_LITERAL"
  /\ error.position = [line |-> token.line, column |-> token.column,
                       start |-> token.start, end |-> token.end]

\* an error that reports a missing ";" or "}"
ExpectedCloser(error) ==
  \E i \in 1..Len(error.expected) : error.expected[i] \in {"SEMICOLON", "RBRACE"}

\* the fields of the one message or extend of the tree
FieldsOf(root) ==
  IF Len(root.messages) = 1 THEN root.messages[1].fields
  ELSE IF Len(root.extends) = 1 THEN root.extends[1].fields
  ELSE <<>>

\* C15: a lexically clean source whose field lacks its number after "=" (message
\* M { string name = ; }) makes compile return no code and at least one syntax
\* error that expected NUMBER_LITERAL, positioned at the token found in its
\* place; the parser goes on, reads the rest of the field and the closing brace,
\* and reports neither of them missing.
C15_MissingFieldNumber ==
  (source \in MissingNumberSources /\ pc \in {"parsed", "done"}) =>
    /\ errors = <<>>
    /\ \E i \in 1..Len(perrors) : ExpectedNumberAt(perrors[i], TokenAfterEqual)
    /\ \A i \in 1..Len(perrors) : ~ExpectedCloser(perrors[i])
    /\ ppos = Len(ptokens)
    /\ stack = <<>>
    /\ Len(FieldsOf(ast)) = 1
    /\ FieldsOf(ast)[1].type = "FIELD"
    /\ pc = "done" => (result.code = <<>> /\ result.errors = perrors)

\* compile has returned the syntax error of message M { string name = ; }
C15_Witness ==
  /\ source = Words(<<s_message, <<"M">>, <<"{">>, s_string, s_name, <<"=">>, <<";">>, <<"}">>>>)
  /\ pc = "done"
  /\ Len(result.errors) >= 1
  /\ ExpectedNumberAt(result.errors[1], TokenAfterEqual)
  /\ TokenAfterEqual.type = "SEMICOLON"


\* C16: every lexical error record compile returns has the shape {message,
\* position: {line, column, start, end}} where start is a defined offset within
\* 0 .. the length of the source and end = start + 1.
C16_LexicalErrorOffsets ==
  (pc = "done" /\ Len(errors) > 0) =>
    \A i \in 1..Len(result.errors) :
      LET p == result.errors[i].position IN
      /\ p.start \in {JSNumber(n) : n \in 0..Len(source)}
      /\ p.end = JSNumber(p.start.number + 1)


AtBlockComment ==
  /\ pc = "tokenize"
  /\ position + 1 < Len(source)
  /\ source[position + 1] = "/"
  /\ source[position + 2] = "*"

\* the offsets, after the opening two characters, at which a closing pair begins
Closers ==
  {k \in (position + 2)..(Len(source) - 2) : source[k + 1] = "*" /\ source[k + 2] = "/"}

\* C18: the lexer records 'Unterminated block comment' exactly when the two opening
\* characters have no closing pair after them; a closed block comment gives one
\* COMMENT token that runs from the opening pair through the closing pair and no
\* error, also when the closing pair ends the input.
C18_BlockCommentClosed ==
  [][AtBlockComment =>
       IF Closers # {}
       THEN LET k == CHOOSE c \in Closers : \A d \in Closers : c <= d IN
            /\ errors' = errors
            /\ Len(tokens') = Len(tokens) + 1
            /\ tokens'[Len(tokens')].type = "COMMENT"
            /\ tokens'[Len(tokens')].start = position
            /\ tokens'[Len(tokens')].end = k + 2
            /\ tokens'[Len(tokens')].value = Slice(source, position, k + 2)
       ELSE /\ tokens' = tokens
            /\ Len(errors') = Len(errors) + 1
            /\ errors'[Len(errors')].message = "Unterminated block comment"]_vars


\* C19: every token carries the line and column of its first character: line is
\* one more than the line breaks before token.start, column one more than the
\* characters since the last of them; also after a block comment on the same
\* line and after a string literal that holds a line break.
C19_TokenLineColumn ==
  \A i \in 1..Len(tokens) :
    /\ tokens[i].line = LineAt(tokens[i].start)
    /\ tokens[i].column = ColumnAt(tokens[i].start)


\* a pass through a body loop is about to run at a token that cannot begin a
\* member (a literal or a symbol) and is not the closing brace
AtStrayToken ==
  /\ pc = "parsing"
  /\ stack # <<>>
  /\ BodyLoopCondition(ParserState)
  /\ ~NameToken(current(ParserState))

\* C20: in each body loop a token that cannot begin a member and is not the
\* closing brace causes exactly one syntax error and moves the cursor on by
\* exactly one token, also when it is a number literal or a string literal.
C20_StrayTokenSkipped ==
  [][AtStrayToken => (Len(perrors') = Len(perrors) + 1 /\ ppos' = ppos + 1)]_vars


\* the first option node of the tree: a top-level option or the option of a field
FirstOption(root, top) ==
  IF top THEN root.options[1] ELSE root.messages[1].fields[1].options[1]

\* the option node carries no value node
NoValueNode(option) == option.value = Null

\* C21: when the token after "=" in a top-level option or in a bracketed field
\* option is not a string literal, a number literal, true or false, the parser
\* records a syntax error and the option node carries no value node; when it is
\* one of those, the value node has the matching kind and the value of the token
\* (boolean true exactly when the token text is 'true').
C21_OptionValue ==
  \A c \in OptionCases :
    (source = c.src /\ pc = "parsed") =>
      LET option == FirstOption(ast, c.top) IN
      IF c.v.kind = "NONE"
      THEN Len(perrors) > 0 /\ NoValueNode(option)
      ELSE /\ option.value.type = c.v.kind
           /\ option.value.value = (IF c.v.kind = "BOOLEAN_LITERAL" THEN c.v.flag ELSE c.v.value)


\* how many statements of a kind a file of SyntaxCases holds
CountOf(c, kind) ==
  Cardinality({i \in 1..Len(c.after) : c.after[i].kind = kind}) +
  (IF c.before.kind = kind THEN 1 ELSE 0)

\* a pass through the top-level loop is about to run at a syntax keyword
AtLateSyntax ==
  /\ pc = "parsing"
  /\ stack = <<>>
  /\ ppos < Len(ptokens)
  /\ ptokens[ppos + 1].type = "SYNTAX"

\* the pass reported the keyword as an unknown top-level token and stepped over it
ReportedAndSkipped ==
  /\ protoFile' = protoFile
  /\ stack' = stack
  /\ ppos' = ppos + 1
  /\ Len(perrors') = Len(perrors) + 1
  /\ perrors'[Len(perrors')].message = "Unknown token in proto file: "
  /\ perrors'[Len(perrors')].detail = ptokens[ppos + 1].value

\* the statements of the file are all in the tree parse returned
AllParsed(c, root) ==
  /\ (root.package # Null) = (CountOf(c, "package") > 0)
  /\ Len(root.imports) = CountOf(c, "import")
  /\ Len(root.options) = CountOf(c, "option")
  /\ Len(root.enums) = CountOf(c, "enum")
  /\ Len(root.extends) = CountOf(c, "extend")
  /\ Len(root.messages) = CountOf(c, "message")
  /\ Len(root.services) = CountOf(c, "service")

\* C22: the syntax field of the root is set only by a syntax statement that is the
\* first non-comment statement of the file; a syntax keyword met after any other
\* token leaves the field as it is and is reported as an unknown top-level token,
\* and the package, import, option, enum, extend, message and service statements
\* after it are still parsed, in any order and number.
C22_SyntaxOnlyFirst ==
  [][/\ (pc' \in {"parsing", "parsed"}) =>
          ((protoFile'.syntax # Null) = (ptokens'[1].type = "SYNTAX"))
     /\ AtLateSyntax => ReportedAndSkipped
     /\ \A c \in SyntaxCases :
          (source = c.src /\ pc' = "parsed") =>
            /\ AllParsed(c, ast')
            /\ (ast'.syntax # Null) = (c.before.kind = "comment")]_vars

\* parse has returned a tree without syntax for a file whose syntax statement
\* follows a package statement and is followed by a message and a service
C22_Witness ==
  /\ pc = "parsed"
  /\ ast.syntax = Null
  /\ ast.package # Null
  /\ Len(ast.messages) = 1
  /\ Len(ast.services) = 1
  /\ \E i \in 1..Len(perrors) : perrors[i].detail = s_syntax


\* the value and the span of the qualified name the tree holds for a place
QualifiedIn(root, place) ==
  CASE place = "package" ->
         [value |-> root.package.name.value, position |-> root.package.name.position]
    [] place = "fieldType" ->
         [value |-> root.messages[1].fields[1].fieldType.name,
          position |-> root.messages[1].fields[1].fieldType.position]
    [] place = "option" ->
         [value |-> root.options[1].name.value, position |-> root.options[1].name.position]

\* C23: a qualified identifier (package name, field type name, option name) with a
\* "." that no identifier follows gives at least one syntax error; a well-formed
\* a.b.c gives no error and one name whose value is the segments joined by "." and
\* whose span runs from the start of the first segment to the end of the last.
C23_QualifiedIdentifier ==
  \A c \in QualifiedCases :
    (source = c.src /\ pc = "parsed") =>
      IF c.good
      THEN /\ Len(perrors) = 0
           /\ QualifiedIn(ast, c.place).value = c.text
           /\ QualifiedIn(ast, c.place).position.start = c.start
           /\ QualifiedIn(ast, c.place).position.end = c.start + Len(c.text)
      ELSE Len(perrors) > 0


\* a pass of the loop of _parseMessage begins at the extensions or reserved keyword
AtRangeKeyword ==
  /\ pc = "parsing"
  /\ stack # <<>>
  /\ Top.kind = "MESSAGE"
  /\ BodyLoopCondition(ParserState)
  /\ current(ParserState).type \in {"EXTENSIONS", "RESERVED"}

\* the token after the keyword makes it a statement of its kind
RangeFollows ==
  IF current(ParserState).type = "EXTENSIONS"
  THEN TokenAfter(1).type = "NUMBER_LITERAL"
  ELSE TokenAfter(1).type \in {"STRING_LITERAL", "NUMBER_LITERAL"}

\* the pass read an extensions or a reserved statement and no field
RangeStatementParsed ==
  /\ Len(stack') = Len(stack)
  /\ stack'[Len(stack)].fields = Top.fields
  /\ IF current(ParserState).type = "EXTENSIONS"
     THEN /\ stack'[Len(stack)].extensions # Null
          /\ stack'[Len(stack)].extensions.type = "EXTENSIONS"
          /\ stack'[Len(stack)].reserved = Top.reserved
     ELSE /\ Len(stack'[Len(stack)].reserved) = Len(Top.reserved) + 1
          /\ stack'[Len(stack)].extensions = Top.extensions

\* the pass read a field whose type name is the text of the keyword
KeywordFieldParsed ==
  /\ Len(stack') = Len(stack)
  /\ stack'[Len(stack)].extensions = Top.extensions
  /\ stack'[Len(stack)].reserved = Top.reserved
  /\ Len(stack'[Len(stack)].fields) = Len(Top.fields) + 1
  /\ LET f == stack'[Len(stack)].fields[Len(Top.fields) + 1] IN
       /\ f.type = "FIELD"
       /\ f.fieldType.name = current(ParserState).value

\* C24: in a message body the extensions keyword is parsed as an extension-range
\* statement only when a number literal follows it, and the reserved keyword as a
\* reserved statement only when a string or number literal follows it; in every
\* other case the keyword starts a field and its text becomes the field type name.
C24_RangeKeywordOrField ==
  [][AtRangeKeyword => IF RangeFollows THEN RangeStatementParsed ELSE KeywordFieldParsed]_vars

\* parse has returned a message whose one field has the type name reserved
C24_Witness ==
  /\ pc = "parsed"
  /\ Len(ast.messages) = 1
  /\ Len(ast.messages[1].fields) = 1
  /\ ast.messages[1].fields[1].fieldType.name = s_reserved
  /\ ast.messages[1].reserved = <<>>


\* the characters of a word: letters, digits and the underscore
WordChars == Letters \cup Digits \cup {"_"}

\* the tokenize loop stands at the first character of a maximal run of word
\* characters that begins with a letter or an underscore
AtWord ==
  /\ pc = "tokenize"
  /\ position < Len(source)
  /\ source[position + 1] \in Letters \cup {"_"}
  /\ (position = 0 \/ source[position] \notin WordChars)

\* the offset at which that run ends
RunEnd ==
  CHOOSE e \in (position + 1)..Len(source) :
    /\ \A i \in (position + 1)..e : source[i] \in WordChars
    /\ (e = Len(source) \/ source[e + 1] \notin WordChars)

\* C25: for a maximal run of letters, digits and underscores that begins with a
\* letter or an underscore the lexer emits one token that spans the run, whose
\* value is the text of the run in its own letter case and whose kind is the
\* keyword of the lower-cased text if there is one and IDENTIFIER otherwise:
\* Message, MESSAGE and message are all of kind MESSAGE.
C25_WordToken ==
  [][AtWord =>
       /\ errors' = errors
       /\ Len(tokens') = Len(tokens) + 1
       /\ LET t == tokens'[Len(tokens')] IN
            /\ t.start = position
            /\ t.end = RunEnd
            /\ t.value = Slice(source, position, RunEnd)
            /\ t.type \in {KEYWORDS[k] : k \in DOMAIN KEYWORDS} \cup {"IDENTIFIER"}
            /\ (t.type # "IDENTIFIER") =
                 (\E k \in DOMAIN KEYWORDS :
                    /\ Len(k) = Len(t.value)
                    /\ \A i \in 1..Len(k) :
                         t.value[i] = k[i] \/ (t.value[i] \in DOMAIN UpperToLower /\ UpperToLower[t.value[i]] = k[i])
                    /\ t.type = KEYWORDS[k])
            /\ \A c \in WordCases : t.value = c.text => t.type = c.kind]_vars

\* tokenize has read MESSAGE and Message as tokens of kind MESSAGE with their own text
C25_Witness ==
  /\ pc = "tokenized"
  /\ Len(tokens) = 2
  /\ tokens[1].type = "MESSAGE" /\ tokens[1].value = <<"M", "E", "S", "S", "A", "G", "E">>
  /\ tokens[2].type = "MESSAGE" /\ tokens[2].value = <<"M", "e", "s", "s", "a", "g", "e">>


\* C26: for a terminated string literal the lexer emits one STRING_LITERAL token
\* whose span covers both quotes and whose value is the text between them with
\* each backslash pair decoded: \n, \t, \r to a line break, a tab, a carriage
\* return, \\ to one backslash, \" to a quote, a backslash before any other
\* character to that character; an escaped quote does not end the literal.
C26_StringDecoded ==
  \A c \in StringCases :
    (source = c.src /\ pc = "tokenized") =>
      /\ errors = <<>>
      /\ Len(tokens) = 1
      /\ tokens[1].type = "STRING_LITERAL"
      /\ tokens[1].start = 0
      /\ tokens[1].end = Len(source)
      /\ tokens[1].value = c.value

\* tokenize has read the literal "\"\n": an escaped quote, then an escaped line break
C26_Witness ==
  /\ source = <<"\"", "\\", "\"", "\\", "n", "\"">>
  /\ pc = "tokenized"
  /\ Len(tokens) = 1
  /\ tokens[1].value = <<"\"", "\n">>


\* C27: a string literal token that stands where the grammar requires an identifier
\* (a message, enum, field, oneof, service or package name, a field type name, an
\* option name) is rejected with a syntax error, and its text never becomes the
\* value of an identifier node or a field type name, also when the decoded text is
\* a valid identifier.
C27_StringIsNoName ==
  (source \in StringNameSources /\ pc = "parsed") =>
    /\ Len(perrors) > 0
    /\ \A n \in TreeNodes :
         /\ n.type = "IDENTIFIER" => n.value # s_Foo
         /\ n.type = "FIELD_TYPE" => n.name # s_Foo


\* C28: every syntax error record parse returns has a position inside the source:
\* line >= 1, column >= 1 and 0 <= start < end <= the length of the source, also
\* when it was recorded after the last token (a missing closing brace, semicolon
\* or literal at the end of the input).
C28_ErrorPositionInSource ==
  pc = "parsed" =>
    \A i \in 1..Len(perrors) :
      LET p == perrors[i].position IN
      /\ p.line >= 1
      /\ p.column >= 1
      /\ 0 <= p.start
      /\ p.start < p.end
      /\ p.end <= Len(source)


\* C29: a second call of parse() on the same Parser instance returns an AST and
\* an error list equal to those the first call returned.
C29_ParseTwiceSame ==
  (pc = "parsed" /\ Len(returned) > 0) =>
    /\ ast = returned[1].ast
    /\ perrors = returned[1].errors


\* C30: in the token list tokenize returns every token has 0 <= start < end <=
\* the length of the source, the tokens are in strictly increasing order of start
\* and do not overlap (the end of a token is at most the start of the next), and
\* the value of every token other than a string literal is the source text from
\* its start to its end.
C30_TokensCoverSource ==
  pc = "tokenized" =>
    /\ \A i \in 1..Len(tokens) :
         /\ 0 <= tokens[i].start
         /\ tokens[i].start < tokens[i].end
         /\ tokens[i].end <= Len(source)
         /\ tokens[i].type # "STRING_LITERAL" =>
              tokens[i].value = Slice(source, tokens[i].start, tokens[i].end)
    /\ \A i \in 1..(Len(tokens) - 1) :
         /\ tokens[i].start < tokens[i + 1].start
         /\ tokens[i].end <= tokens[i + 1].start

\* tokenize has returned a number with a sign or a decimal point next to another
\* token
C30_Witness ==
  /\ pc = "tokenized"
  /\ Len(tokens) >= 2
  /\ \E i \in 1..Len(tokens) :
       /\ tokens[i].type = "NUMBER_LITERAL"
       /\ tokens[i].end - tokens[i].start >= 2
  /\ \E i \in 1..(Len(tokens) - 1) : tokens[i].end = tokens[i + 1].start

====
